---- MODULE Spec2Model ----
(***************************************************************************)
(* BuildingRadar: the spatial chunk cache.                                 *)
(*                                                                         *)
(* A grid index over point features (SpatialIndex), the chunk boundaries   *)
(* DataLoader derives from the parsed shapefile groups, the bounded LRU    *)
(* cache of chunks with its asynchronous chunk loader, and queryRadius in  *)
(* eager and in lazy mode.                                                 *)
(*                                                                         *)
(* Lengths are integers in model units: one grid cell is CellUnits units   *)
(* wide (cellSize degrees, cellSize * 111000 metres in queryRadius).       *)
(* Global feature indices and chunk ids are 0-based as in the source;      *)
(* a JavaScript array a is a sequence s with a[i] = s[i + 1].              *)
(***************************************************************************)
EXTENDS Integers, Sequences, FiniteSets, TLC

(* ------------------------------ bounds -------------------------------- *)

\* Source groups (shapefiles) of a generated upload.
MaxGroups == 2
\* Features of one generated source group.
MaxGroupSize == 2
\* Length of the repeating pattern that places the features of a generated upload.
PatternLen == 2
\* Largest query radius of the eager queries, in model units.
MaxRadius == 3
\* Date.now() runs from 0 to MaxTime.
MaxTime == 2
\* ensureChunksLoaded calls started in one run.
MaxCalls == 2
\* saveSpatialIndex calls of one run, one after the other.
MaxSaves == 2
\* Messages StorageManager sends to the worker in one run.
MaxMessages == 2
\* Largest cell range of the queries with a radius in metres.
MaxRangeCells == 2

(* ------------------------- program constants -------------------------- *)

\* StorageConfig.DEFAULT_CELL_SIZE, in model units.
CellUnits == 2
\* 1 / StorageConfig.DEFAULT_CELL_SIZE: the cells of one degree.
CellsPerDegree == 100
\* The metres of one degree in the cell range of queryRadius.
METERS_PER_DEGREE == 111000
\* StorageConfig.MAX_CACHED_CHUNKS
MAX_CACHED_CHUNKS == 10
\* StorageConfig.CHUNK_SIZE, the fixed chunk size resolveChunkForIndex falls back to.
CHUNK_SIZE == 1000
\* STREAM_BATCH_SIZE of saveSpatialIndex: chunks per saveChunkBatch request.
STREAM_BATCH_SIZE == 10
\* SUB_BATCH_SIZE of the worker's saveChunkBatch: chunk records per transaction.
SUB_BATCH_SIZE == 10

(* ------------------------------ helpers ------------------------------- *)

Range(s) == {s[i] : i \in 1..Len(s)}

Min(a, b) == IF a <= b THEN a ELSE b

Max(a, b) == IF a >= b THEN a ELSE b

\* Math.ceil(a / b) for b > 0
CeilDiv(a, b) == -((-a) \div b)

\* Array.prototype.includes
Includes(s, x) == \E i \in 1..Len(s) : s[i] = x

\* A Set's add in insertion order: Array.from(set) lists first insertions.
AddUnique(s, x) == IF Includes(s, x) THEN s ELSE Append(s, x)

RECURSIVE AddAllUnique(_, _)
AddAllUnique(s, xs) ==
    IF xs = <<>> THEN s ELSE AddAllUnique(AddUnique(s, Head(xs)), Tail(xs))

RECURSIVE Concat(_)
Concat(ss) == IF ss = <<>> THEN <<>> ELSE Head(ss) \o Concat(Tail(ss))

(* ------------------------------ features ------------------------------ *)

Point(lon, lat) == [type |-> "Point", lon |-> lon, lat |-> lat]

\* A feature whose geometry is no Point: indexFeatures leaves it out of the grid.
Polygon == [type |-> "Polygon", lon |-> 0, lat |-> 0]

(* --------------------------- SpatialIndex: grid ----------------------- *)

\* getCellKey: `${floor(lon / cellSize)},${floor(lat / cellSize)}`, kept as the pair.
getCellKey(lon, lat) == <<lon \div CellUnits, lat \div CellUnits>>

\* parseCellKey: cellKey.split(',').map(Number)
parseCellKey(cellKey) == <<cellKey[1], cellKey[2]>>

\* calculateDistance, as the square of the planar distance in model units.
calculateDistance(lat1, lon1, lat2, lon2) ==
    (lat2 - lat1) * (lat2 - lat1) + (lon2 - lon1) * (lon2 - lon1)

\* distance <= radius on the squared distance: no distance is <= a negative radius.
WithinRadiusStrict(distance, radius) == radius >= 0 /\ distance < radius * radius

WithinRadius(distance, radius) == radius >= 0 /\ distance <= radius * radius

\* The cell's list is replaced by the new index alone.
GridSet(grid, key, index) ==
    [k \in DOMAIN grid \cup {key} |-> IF k = key THEN <<index>> ELSE grid[k]]

\* grid.get(key).push(index), creating the cell's list on first use.
GridPush(grid, key, index) ==
    IF key \in DOMAIN grid
    THEN [grid EXCEPT ![key] = Append(@, index)]
    ELSE [k \in DOMAIN grid \cup {key} |-> IF k = key THEN <<index>> ELSE grid[k]]

\* The forEach of indexFeatures from position i on: only Point features are indexed.
RECURSIVE IndexFrom(_, _, _)
IndexFrom(features, i, grid) ==
    IF i >= Len(features) THEN grid
    ELSE LET f == features[i + 1]
         IN IF f.type = "Point"
            THEN IndexFrom(features, i + 1, GridPush(grid, getCellKey(f.lon, f.lat), i))
            ELSE IndexFrom(features, i + 1, grid)

EmptyGrid == [k \in {} |-> <<>>]

\* indexFeatures(geojson): the grid of a feature array.
indexFeatures(features) == IndexFrom(features, 0, EmptyGrid)

(* ----------------- FileProcessor / DataLoader: the build -------------- *)

\* Every group is kept, with or without features.
FeaturesByShapefileAll(groups, i) ==
    [k \in 1..(Len(groups) - i + 1) |->
        [shapefileName |-> i + k - 1, features |-> groups[i + k - 1]]]

\* loadShapefilesFromFolder: the groups that parsed to at least one feature, in
\* source order, each with its shapefile name (its position among the groups).
RECURSIVE FeaturesByShapefileFrom(_, _)
FeaturesByShapefileFrom(groups, i) ==
    IF i > Len(groups) THEN <<>>
    ELSE IF Len(groups[i]) > 0
         THEN <<[shapefileName |-> i, features |-> groups[i]]>>
                  \o FeaturesByShapefileFrom(groups, i + 1)
         ELSE FeaturesByShapefileFrom(groups, i + 1)

loadShapefilesFromFolder(groups) == FeaturesByShapefileFrom(groups, 1)

\* combinedGeoJSON.features of loadShapefilesFromFolder
CombinedFeatures(byShapefile) ==
    Concat([i \in 1..Len(byShapefile) |-> byShapefile[i].features])

\* Off by one: the running offset forgets the group just emitted.
RECURSIVE ChunkBoundariesStale(_, _)
ChunkBoundariesStale(byShapefile, currentIndex) ==
    IF byShapefile = <<>> THEN <<>>
    ELSE LET sf == Head(byShapefile)
         IN <<[start |-> currentIndex,
               end |-> currentIndex + Len(sf.features),
               shapefileName |-> sf.shapefileName]>>
                \o ChunkBoundariesStale(Tail(byShapefile),
                                        Max(0, currentIndex + Len(sf.features) - 1))

\* handleFolderUpload: one boundary per group, start and end from a running offset.
RECURSIVE ChunkBoundariesFrom(_, _)
ChunkBoundariesFrom(byShapefile, currentIndex) ==
    IF byShapefile = <<>> THEN <<>>
    ELSE LET sf == Head(byShapefile)
         IN <<[start |-> currentIndex,
               end |-> currentIndex + Len(sf.features),
               shapefileName |-> sf.shapefileName]>>
                \o ChunkBoundariesFrom(Tail(byShapefile),
                                       currentIndex + Len(sf.features))

\* handleSingleFileUpload: the whole file is one chunk.
SingleFileBoundaries(featureCount) ==
    <<[start |-> 0, end |-> featureCount, shapefileName |-> 1]>>

(* ------------------- SpatialIndex: the instance ----------------------- *)

NoLookup == [chunkId |-> -1, start |-> -1, end |-> -1]

NoFeatureToChunk == [isNull |-> TRUE, table |-> <<>>]

EmptyMap == [k \in {} |-> <<>>]

\* new SpatialIndex(): the constructor's fields.
NewSpatialIndex ==
    [cellSize |-> CellUnits,
     grid |-> EmptyGrid,
     allFeatures |-> <<>>,
     featureCount |-> 0,
     isLoaded |-> FALSE,
     lazyMode |-> FALSE,
     chunkMap |-> EmptyMap,
     chunkMetadata |-> EmptyMap,
     chunkBoundaries |-> <<>>,
     featureToChunk |-> NoFeatureToChunk,
     lastChunkLookup |-> NoLookup,
     loadedChunks |-> {},
     chunkCache |-> <<>>,
     maxCachedChunks |-> MAX_CACHED_CHUNKS]

\* new SpatialIndex() after indexFeatures(geojson): every feature is kept in
\* allFeatures and counted, the Point features are in the grid.
IndexedFeatures(features) ==
    [NewSpatialIndex EXCEPT
        !.allFeatures = features,
        !.featureCount = Len(features),
        !.grid = indexFeatures(features)]

\* chunkBoundaries.reduce((max, b) => Math.max(max, b.end), 0)
RECURSIVE TotalFeatures(_)
TotalFeatures(chunkBoundaries) ==
    IF chunkBoundaries = <<>> THEN 0
    ELSE Max(Head(chunkBoundaries).end, TotalFeatures(Tail(chunkBoundaries)))

\* Off by one: the first index of every boundary is left out.
RECURSIVE FillLookupAfterStart(_, _, _)
FillLookupAfterStart(table, chunkBoundaries, chunkId) ==
    IF chunkId >= Len(chunkBoundaries) THEN table
    ELSE LET b == chunkBoundaries[chunkId + 1]
         IN FillLookupAfterStart([j \in 1..Len(table) |->
                                     IF b.start < j - 1 /\ j - 1 < b.end
                                     THEN chunkId ELSE table[j]],
                                 chunkBoundaries, chunkId + 1)

\* The forEach of initializeChunkLookup from boundary chunkId on: every index of
\* [start, end) inside the table gets chunkId, later boundaries overwriting.
RECURSIVE FillLookup(_, _, _)
FillLookup(table, chunkBoundaries, chunkId) ==
    IF chunkId >= Len(chunkBoundaries) THEN table
    ELSE LET b == chunkBoundaries[chunkId + 1]
         IN FillLookup([j \in 1..Len(table) |->
                           IF b.start <= j - 1 /\ j - 1 < b.end
                           THEN chunkId ELSE table[j]],
                       chunkBoundaries, chunkId + 1)

\* The one-entry lookup cache survives the rebuild of the table.
initializeChunkLookupKeepingCache(this, chunkBoundaries) ==
    IF Len(chunkBoundaries) = 0
    THEN [this EXCEPT !.featureToChunk = NoFeatureToChunk]
    ELSE LET totalFeatures == TotalFeatures(chunkBoundaries)
         IN [this EXCEPT
               !.featureCount = IF totalFeatures > @ THEN totalFeatures ELSE @,
               !.featureToChunk =
                   [isNull |-> FALSE,
                    table |-> FillLookup([j \in 1..totalFeatures |-> 0],
                                         chunkBoundaries, 0)]]

\* initializeChunkLookup: a zero-filled Uint32Array of totalFeatures entries, filled
\* from the boundaries; featureCount is raised to totalFeatures; the one-entry
\* lookup cache is reset.
initializeChunkLookup(this, chunkBoundaries) ==
    IF Len(chunkBoundaries) = 0
    THEN [this EXCEPT !.featureToChunk = NoFeatureToChunk,
                      !.lastChunkLookup = NoLookup]
    ELSE LET totalFeatures == TotalFeatures(chunkBoundaries)
         IN [this EXCEPT
               !.featureCount = IF totalFeatures > @ THEN totalFeatures ELSE @,
               !.featureToChunk =
                   [isNull |-> FALSE,
                    table |-> FillLookup([j \in 1..totalFeatures |-> 0],
                                         chunkBoundaries, 0)],
               !.lastChunkLookup = NoLookup]

\* Collapsed: the chunk id of the cell's first index alone.
ChunkSetFirst(table, indices, acc) ==
    IF indices = <<>> \/ Head(indices) >= Len(table) THEN acc
    ELSE AddUnique(acc, table[Head(indices) + 1])

\* The chunk ids of a cell's indices, in order of first appearance.
RECURSIVE ChunkSetOf(_, _, _)
ChunkSetOf(table, indices, acc) ==
    IF indices = <<>> THEN acc
    ELSE LET index == Head(indices)
         IN ChunkSetOf(table, Tail(indices),
                       IF index < Len(table)
                       THEN AddUnique(acc, table[index + 1]) ELSE acc)

\* buildChunkMetadata: cellKey -> [chunkIds], for the cells with a chunk id.
buildChunkMetadata(this) ==
    IF this.featureToChunk.isNull THEN EmptyMap
    ELSE LET table == this.featureToChunk.table
             cells == {k \in DOMAIN this.grid :
                          Len(ChunkSetOf(table, this.grid[k], <<>>)) > 0}
         IN [k \in cells |-> ChunkSetOf(table, this.grid[k], <<>>)]

\* setChunkMetadata: every entry of the table, as a list of chunk ids.
setChunkMetadata(this, chunkMetadata) ==
    [this EXCEPT !.chunkMetadata = [k \in DOMAIN chunkMetadata |-> chunkMetadata[k]]]

\* serialize(chunkBoundaries) on an index with boundaries: the instance afterwards.
SerializeInstance(this, chunkBoundaries) ==
    LET t1 == initializeChunkLookup(this, chunkBoundaries)
        t2 == [t1 EXCEPT !.chunkBoundaries = chunkBoundaries]
    IN setChunkMetadata(t2, buildChunkMetadata(t1))

\* serialize(chunkBoundaries): the plain object stored as the index record's data.
SerializeData(this, chunkBoundaries) ==
    [cellSize |-> this.cellSize,
     grid |-> this.grid,
     featureCount |-> Len(this.allFeatures),
     chunkMetadata |-> buildChunkMetadata(initializeChunkLookup(this, chunkBoundaries)),
     chunkBoundaries |-> chunkBoundaries]

\* Only cell size, count and grid are restored.
deserializeGridOnly(this, data) ==
    [this EXCEPT !.cellSize = data.cellSize,
                 !.featureCount = data.featureCount,
                 !.grid = data.grid,
                 !.isLoaded = TRUE]

\* deserialize(data) on a new index: grid, lookup tables, boundaries and metadata;
\* no feature is loaded.
deserialize(this, data) ==
    LET t0 == [this EXCEPT !.cellSize = data.cellSize,
                           !.featureCount = data.featureCount,
                           !.grid = data.grid]
        t1 == [initializeChunkLookup(t0, data.chunkBoundaries)
                  EXCEPT !.chunkBoundaries = data.chunkBoundaries]
        t2 == setChunkMetadata(t1, data.chunkMetadata)
    IN [t2 EXCEPT !.isLoaded = TRUE]

\* getChunksForCell
getChunksForCell(this, cellKey) ==
    IF cellKey \in DOMAIN this.chunkMetadata THEN this.chunkMetadata[cellKey] ELSE <<>>

\* The linear search of resolveChunkForIndex over chunkBoundaries from position i.
RECURSIVE FindBoundary(_, _, _)
FindBoundary(chunkBoundaries, index, i) ==
    IF i >= Len(chunkBoundaries) THEN -1
    ELSE IF index >= chunkBoundaries[i + 1].start /\ index < chunkBoundaries[i + 1].end
         THEN i
         ELSE FindBoundary(chunkBoundaries, index, i + 1)

\* resolveChunkForIndex: chunkId and localIndex of a global index, and the
\* one-entry lookup cache afterwards.
resolveChunkForIndex(this, index) ==
    LET last == this.lastChunkLookup
    IN IF last.chunkId >= 0 /\ index >= last.start /\ index < last.end
       THEN [chunkId |-> last.chunkId, localIndex |-> index - last.start,
             lookup |-> last]
       ELSE IF ~this.featureToChunk.isNull /\ index < Len(this.featureToChunk.table)
       THEN LET chunkId == this.featureToChunk.table[index + 1]
            IN IF chunkId < Len(this.chunkBoundaries)
               THEN LET boundary == this.chunkBoundaries[chunkId + 1]
                    IN [chunkId |-> chunkId, localIndex |-> index - boundary.start,
                        lookup |-> [chunkId |-> chunkId, start |-> boundary.start,
                                    end |-> boundary.end]]
               ELSE [chunkId |-> -1, localIndex |-> -1, lookup |-> last]
       ELSE IF Len(this.chunkBoundaries) > 0
       THEN LET i == FindBoundary(this.chunkBoundaries, index, 0)
            IN IF i >= 0
               THEN [chunkId |-> i,
                     localIndex |-> index - this.chunkBoundaries[i + 1].start,
                     lookup |-> [chunkId |-> i,
                                 start |-> this.chunkBoundaries[i + 1].start,
                                 end |-> this.chunkBoundaries[i + 1].end]]
               ELSE [chunkId |-> -1, localIndex |-> -1, lookup |-> last]
       ELSE LET chunkId == index \div CHUNK_SIZE
                start == chunkId * CHUNK_SIZE
            IN [chunkId |-> chunkId, localIndex |-> index - start,
                lookup |-> [chunkId |-> chunkId, start |-> start,
                            end |-> start + CHUNK_SIZE]]

NoFeature == [found |-> FALSE, feature |-> Polygon, lookup |-> NoLookup]

\* getFeature(index): the feature, when there is one, and the lookup cache afterwards.
\* In lazy mode a feature of a chunk that is not resident is null.
getFeature(this, index) ==
    IF this.lazyMode
    THEN LET r == resolveChunkForIndex(this, index)
         IN IF r.chunkId >= 0 /\ r.chunkId \in this.loadedChunks
               /\ r.chunkId \in DOMAIN this.chunkMap
               /\ r.localIndex >= 0
               /\ r.localIndex < Len(this.chunkMap[r.chunkId])
            THEN [found |-> TRUE,
                  feature |-> this.chunkMap[r.chunkId][r.localIndex + 1],
                  lookup |-> r.lookup]
            ELSE [NoFeature EXCEPT !.lookup = r.lookup]
    ELSE IF index < Len(this.allFeatures)
         THEN [found |-> TRUE, feature |-> this.allFeatures[index + 1],
               lookup |-> this.lastChunkLookup]
         ELSE [NoFeature EXCEPT !.lookup = this.lastChunkLookup]

\* clear(): the grid and the features are dropped and the index counts as not
\* loaded; no other field is assigned.
clear(this) ==
    [this EXCEPT !.grid = EmptyGrid, !.allFeatures = <<>>, !.isLoaded = FALSE]

(* ----------------------- SpatialIndex: queryRadius -------------------- *)

\* Math.ceil(radius / (cellSize * 111000)): the cells to check on each side.
CellRange(radius) == CeilDiv(radius, CellUnits)

\* Math.ceil(radius / (cellSize * 111000)) for a radius in metres and the default
\* cell size: radius / 1110, rounded up.
CellRangeOfMeters(radius) == CeilDiv(radius * CellsPerDegree, METERS_PER_DEGREE)

\* The dy loop of queryRadius for one dx.
RECURSIVE CellColumn(_, _, _, _)
CellColumn(cx, cy, dy, cellRange) ==
    IF dy > cellRange THEN <<>>
    ELSE <<(<<cx, cy + dy>>)>> \o CellColumn(cx, cy, dy + 1, cellRange)

\* The dx loop of queryRadius.
RECURSIVE CellRows(_, _, _, _)
CellRows(cx, cy, dx, cellRange) ==
    IF dx > cellRange THEN <<>>
    ELSE CellColumn(cx + dx, cy, -cellRange, cellRange)
            \o CellRows(cx, cy, dx + 1, cellRange)

\* cellsToCheck of queryRadius(lon, lat, radius)
CellsToCheck(lon, lat, radius) ==
    LET center == parseCellKey(getCellKey(lon, lat))
    IN CellRows(center[1], center[2], -CellRange(radius), CellRange(radius))

\* neededChunks of queryRadius: the chunk ids of the cells to check, as Array.from
\* lists the Set.
RECURSIVE NeededChunks(_, _, _)
NeededChunks(this, cells, acc) ==
    IF cells = <<>> THEN acc
    ELSE NeededChunks(this, Tail(cells),
                      AddAllUnique(acc, getChunksForCell(this, Head(cells))))

\* The loop over one cell's indices: acc holds the features found and the index
\* with its lookup cache.
RECURSIVE ScanIndices(_, _, _, _, _)
ScanIndices(indices, lon, lat, radius, acc) ==
    IF indices = <<>> THEN acc
    ELSE LET idx == Head(indices)
             g == getFeature(acc.this, idx)
             this1 == [acc.this EXCEPT !.lastChunkLookup = g.lookup]
             distance == calculateDistance(lat, lon, g.feature.lat, g.feature.lon)
         IN ScanIndices(Tail(indices), lon, lat, radius,
               IF g.found /\ WithinRadius(distance, radius)
               THEN [this |-> this1,
                     features |-> Append(acc.features,
                                    [index |-> idx, feature |-> g.feature,
                                     distance |-> distance])]
               ELSE [this |-> this1, features |-> acc.features])

\* The loop over the cells to check.
RECURSIVE ScanCells(_, _, _, _, _)
ScanCells(cells, lon, lat, radius, acc) ==
    IF cells = <<>> THEN acc
    ELSE ScanCells(Tail(cells), lon, lat, radius,
                   IF Head(cells) \in DOMAIN acc.this.grid
                   THEN ScanIndices(acc.this.grid[Head(cells)], lon, lat, radius, acc)
                   ELSE acc)

\* The scan of queryRadius ("Query features from loaded data"): the features
\* returned and the index afterwards.
QueryScan(this, lon, lat, radius) ==
    ScanCells(CellsToCheck(lon, lat, radius), lon, lat, radius,
              [this |-> this, features |-> <<>>])

(* ------------------- SpatialIndex: the chunk cache -------------------- *)

\* A field of the cacheOptions object, or the destructuring default.
Opt(cacheOptions, field, default) ==
    IF field \in DOMAIN cacheOptions THEN cacheOptions[field] ELSE default

\* Without the reductions for mobile devices and older iPads.
TunedLimitDesktop(cacheOptions) ==
    LET hasMemory == "deviceMemory" \in DOMAIN cacheOptions
        deviceMemory == Opt(cacheOptions, "deviceMemory", 0)
        hasCount == "chunkCount" \in DOMAIN cacheOptions
        chunkCount == Opt(cacheOptions, "chunkCount", 0)
        maxCachedChunks == Opt(cacheOptions, "maxCachedChunks", MAX_CACHED_CHUNKS)
        l0 == IF maxCachedChunks > 0 THEN maxCachedChunks ELSE MAX_CACHED_CHUNKS
        l1 == IF hasCount /\ chunkCount > 0
              THEN Min(Min(l0, Max(1, chunkCount)),
                       Max(3, Min(20, CeilDiv(chunkCount, 10))))
              ELSE l0
        l2 == IF ~hasMemory THEN l1
              ELSE IF deviceMemory <= 2 THEN Min(l1, 4)
              ELSE IF deviceMemory <= 4 THEN Min(l1, 6)
              ELSE IF deviceMemory >= 8
                   THEN Min(Max(l1, 12),
                            IF hasCount /\ chunkCount # 0
                            THEN Max(12, Min(chunkCount, 20)) ELSE 12)
              ELSE l1
        l4 == IF hasCount /\ chunkCount > 0 THEN Min(l2, chunkCount) ELSE l2
    IN Max(1, Min(50, l4))

\* tuneChunkCache(cacheOptions): the applied limit. deviceMemory and chunkCount
\* are null when the object has no such field.
TunedLimit(cacheOptions) ==
    LET hasMemory == "deviceMemory" \in DOMAIN cacheOptions
        deviceMemory == Opt(cacheOptions, "deviceMemory", 0)
        hasCount == "chunkCount" \in DOMAIN cacheOptions
        chunkCount == Opt(cacheOptions, "chunkCount", 0)
        isMobile == Opt(cacheOptions, "isMobile", FALSE)
        isOlderiPad == Opt(cacheOptions, "isOlderiPad", FALSE)
        maxCachedChunks == Opt(cacheOptions, "maxCachedChunks", MAX_CACHED_CHUNKS)
        l0 == IF maxCachedChunks > 0 THEN maxCachedChunks ELSE MAX_CACHED_CHUNKS
        l1 == IF hasCount /\ chunkCount > 0
              THEN Min(Min(l0, Max(1, chunkCount)),
                       Max(3, Min(20, CeilDiv(chunkCount, 10))))
              ELSE l0
        l2 == IF ~hasMemory THEN l1
              ELSE IF deviceMemory <= 2 THEN Min(l1, 4)
              ELSE IF deviceMemory <= 4 THEN Min(l1, 6)
              ELSE IF deviceMemory >= 8
                   THEN Min(Max(l1, 12),
                            IF hasCount /\ chunkCount # 0
                            THEN Max(12, Min(chunkCount, 20)) ELSE 12)
              ELSE l1
        l3 == IF isOlderiPad THEN Min(l2, 4)
              ELSE IF isMobile THEN Min(l2, 6)
              ELSE l2
        l4 == IF hasCount /\ chunkCount > 0 THEN Min(l3, chunkCount) ELSE l3
    IN Max(1, Min(50, l4))

tuneChunkCache(this, cacheOptions) ==
    [this EXCEPT !.maxCachedChunks = TunedLimit(cacheOptions)]

\* enableLazyLoading(chunkLoader, cacheOptions): cacheOptions is <<>> for null and
\* <<options>> for an object. The chunk loader is DataLoader's, which asks the
\* store through StorageManager.loadChunks.
enableLazyLoading(this, cacheOptions) ==
    LET t1 == [this EXCEPT !.lazyMode = TRUE]
    IN IF cacheOptions # <<>> THEN tuneChunkCache(t1, cacheOptions[1]) ELSE t1

\* chunkIds.filter(id => true): every requested id is fetched again.
ToLoadAll(this, chunkIds) == chunkIds

\* toLoad of ensureChunksLoaded: chunkIds.filter(id => !this.loadedChunks.has(id))
ToLoad(this, chunkIds) ==
    SelectSeq(chunkIds, LAMBDA id : id \notin this.loadedChunks)

\* Every access pushes a new entry.
updateChunkCachePush(this, chunkId, now) ==
    [this EXCEPT !.chunkCache = Append(@, [id |-> chunkId, lastAccess |-> now])]

\* updateChunkCache(chunkId) at Date.now() = now
updateChunkCache(this, chunkId, now) ==
    IF \E i \in 1..Len(this.chunkCache) : this.chunkCache[i].id = chunkId
    THEN [this EXCEPT !.chunkCache =
             [i \in 1..Len(@) |->
                 IF @[i].id = chunkId THEN [@[i] EXCEPT !.lastAccess = now] ELSE @[i]]]
    ELSE [this EXCEPT !.chunkCache = Append(@, [id |-> chunkId, lastAccess |-> now])]

\* The all-resident branch of ensureChunksLoaded: chunkIds.forEach(updateChunkCache)
\* for the ids that are loaded.
RECURSIVE RefreshAll(_, _, _)
RefreshAll(this, chunkIds, now) ==
    IF chunkIds = <<>> THEN this
    ELSE RefreshAll(IF Head(chunkIds) \in this.loadedChunks
                    THEN updateChunkCache(this, Head(chunkIds), now) ELSE this,
                    Tail(chunkIds), now)

\* The loop of ensureChunksLoaded over the chunks the loader returned.
RECURSIVE StoreChunks(_, _, _)
StoreChunks(this, chunks, now) ==
    IF chunks = <<>> THEN this
    ELSE LET c == Head(chunks)
             id == c.id
             t1 == [this EXCEPT
                      !.chunkMap = [k \in DOMAIN @ \cup {id} |->
                                       IF k = id THEN c.features ELSE @[k]],
                      !.loadedChunks = @ \cup {id}]
         IN StoreChunks(updateChunkCache(t1, id, now), Tail(chunks), now)

\* Insert e into a sequence sorted by lastAccess, after the entries that are not
\* newer: Array.prototype.sort is stable.
RECURSIVE InsertByLastAccess(_, _)
InsertByLastAccess(sorted, e) ==
    IF sorted = <<>> THEN <<e>>
    ELSE IF Head(sorted).lastAccess <= e.lastAccess
         THEN <<Head(sorted)>> \o InsertByLastAccess(Tail(sorted), e)
         ELSE <<e>> \o sorted

\* Newest first.
RECURSIVE SortNewestFirst(_)
SortNewestFirst(cache) ==
    IF cache = <<>> THEN <<>>
    ELSE LET rest == SortNewestFirst(SubSeq(cache, 1, Len(cache) - 1))
             e == cache[Len(cache)]
             older == SelectSeq(rest, LAMBDA x : x.lastAccess >= e.lastAccess)
             newer == SelectSeq(rest, LAMBDA x : x.lastAccess < e.lastAccess)
         IN older \o <<e>> \o newer

\* chunkCache.sort((a, b) => a.lastAccess - b.lastAccess)
RECURSIVE SortByLastAccess(_)
SortByLastAccess(cache) ==
    IF cache = <<>> THEN <<>>
    ELSE InsertByLastAccess(SortByLastAccess(SubSeq(cache, 1, Len(cache) - 1)),
                            cache[Len(cache)])

\* toRemove of evictOldChunks: the entries spliced off the sorted cache.
ToRemove(this) ==
    IF Len(this.chunkCache) <= this.maxCachedChunks THEN <<>>
    ELSE SubSeq(SortByLastAccess(this.chunkCache), 1,
                Len(this.chunkCache) - this.maxCachedChunks)

\* evictOldChunks: over the limit, the cache is sorted by lastAccess and loses its
\* first entries, whose chunks leave chunkMap and loadedChunks.
evictOldChunks(this) ==
    IF Len(this.chunkCache) <= this.maxCachedChunks THEN this
    ELSE LET sorted == SortByLastAccess(this.chunkCache)
             n == Len(this.chunkCache) - this.maxCachedChunks
             removed == {ToRemove(this)[i].id : i \in 1..n}
         IN [this EXCEPT
               !.chunkCache = SubSeq(sorted, n + 1, Len(sorted)),
               !.chunkMap = [k \in DOMAIN @ \ removed |-> @[k]],
               !.loadedChunks = @ \ removed]

(* --------------------------- the durable store ------------------------ *)

\* The object store: the index record (none or one) and the chunk records by id.
EmptyStore == [index |-> <<>>, chunks |-> EmptyMap]

\* saveSpatialIndex(indexData, featureChunks) answered with success throughout:
\* initSave deletes the chunk records and writes the index record, saveChunkBatch
\* writes chunk record i for the i-th chunk.
saveSpatialIndex(st, indexData, featureChunks) ==
    [index |-> <<[data |-> indexData, chunkCount |-> Len(featureChunks)]>>,
     chunks |-> [i \in 0..Len(featureChunks) - 1 |-> featureChunks[i + 1]]]

\* Every chunk record of the store, whatever was asked for.
loadAllChunks(st, chunkIds) ==
    LET n == Cardinality(DOMAIN st.chunks)
        f == CHOOSE g \in [1..n -> DOMAIN st.chunks] :
                 \A i, j \in 1..n : i < j => g[i] < g[j]
    IN [i \in 1..n |-> [id |-> f[i], features |-> st.chunks[f[i]]]]

\* All or nothing: one missing record fails the whole request.
loadChunksOrNothing(st, chunkIds) ==
    IF Range(chunkIds) \subseteq DOMAIN st.chunks
    THEN [i \in 1..Len(chunkIds) |->
             [id |-> chunkIds[i], features |-> st.chunks[chunkIds[i]]]]
    ELSE <<>>

\* loadChunks(chunkIds) of the worker: the records found, in request order.
RECURSIVE loadChunks(_, _)
loadChunks(st, chunkIds) ==
    IF chunkIds = <<>> THEN <<>>
    ELSE IF Head(chunkIds) \in DOMAIN st.chunks
         THEN <<[id |-> Head(chunkIds), features |-> st.chunks[Head(chunkIds)]]>>
                  \o loadChunks(st, Tail(chunkIds))
         ELSE loadChunks(st, Tail(chunkIds))

\* The chunk records are read along with the index record.
loadSpatialIndexWithChunks(st) ==
    IF st.index = <<>> THEN <<>>
    ELSE <<[indexData |-> st.index[1].data, chunkCount |-> st.index[1].chunkCount,
            chunks |-> st.chunks]>>

\* loadSpatialIndex of the worker: what a restore reads of the index record, or
\* null (the empty sequence) without one.
loadSpatialIndex(st) ==
    IF st.index = <<>> THEN <<>>
    ELSE <<[indexData |-> st.index[1].data, chunkCount |-> st.index[1].chunkCount]>>

(* ------------------ the save protocol: the worker side ----------------- *)

\* Nothing is deleted.
ClearNoRecord(st) == st

\* initSave, step 1: one transaction deletes every record whose key starts with
\* features_chunk_.
ClearChunkRecords(st) == [st EXCEPT !.chunks = EmptyMap]

\* The chunk count adds up over the saves.
PutIndexRecordCounting(st, indexData, totalChunks) ==
    [st EXCEPT !.index =
        <<[data |-> indexData,
           chunkCount |-> IF st.index = <<>> THEN totalChunks
                          ELSE st.index[1].chunkCount + totalChunks]>>]

\* initSave, step 2: one transaction puts the index record.
PutIndexRecord(st, indexData, totalChunks) ==
    [st EXCEPT !.index = <<[data |-> indexData, chunkCount |-> totalChunks]>>]

\* One transaction of saveChunkBatch: chunks[j] for i <= j < subBatchEnd is put as
\* the record features_chunk_(startIndex + j).
PutSubBatch(st, startIndex, chunks, i, subBatchEnd) ==
    LET ids == {startIndex + j : j \in i..(subBatchEnd - 1)}
    IN [st EXCEPT !.chunks =
           [id \in (DOMAIN st.chunks) \cup ids |->
               IF id \in ids THEN chunks[id - startIndex + 1] ELSE st.chunks[id]]]

\* Only the chunk records are deleted.
clearDataKeepingIndex(st) == [st EXCEPT !.chunks = EmptyMap]

\* clearData: one transaction deletes every record, index and chunks.
clearData(st) == EmptyStore

\* initSave(indexData, metadata, totalChunks). It rejects with the store untouched
\* when there is no database or the clearing transaction fails ("clearFails"), and
\* with the chunk records deleted and the index record as it was when the put
\* fails ("putFails").
InitSaveOutcomes == {"ok", "clearFails", "putFails"}

initSave(st, indexData, totalChunks, outcome) ==
    IF outcome = "clearFails" THEN st
    ELSE IF outcome = "putFails" THEN ClearChunkRecords(st)
    ELSE PutIndexRecord(ClearChunkRecords(st), indexData, totalChunks)

\* saveChunkBatch(startIndex, chunks): the loop over the sub-batches from chunk i
\* on, one transaction each. w carries the store and the number of records each
\* committed transaction wrote; transaction number failAt fails (0: none does), the
\* transactions before it stay committed.
RECURSIVE SaveChunkBatchFrom(_, _, _, _, _)
SaveChunkBatchFrom(w, startIndex, chunks, i, failAt) ==
    IF i >= Len(chunks) THEN [w EXCEPT !.ok = TRUE]
    ELSE LET subBatchEnd == Min(i + SUB_BATCH_SIZE, Len(chunks))
         IN IF failAt = (i \div SUB_BATCH_SIZE) + 1 THEN [w EXCEPT !.ok = FALSE]
            ELSE SaveChunkBatchFrom(
                     [store |-> PutSubBatch(w.store, startIndex, chunks, i, subBatchEnd),
                      tx |-> Append(w.tx, subBatchEnd - i),
                      ok |-> TRUE],
                     startIndex, chunks, i + SUB_BATCH_SIZE, failAt)

saveChunkBatch(st, tx, startIndex, chunks, failAt) ==
    SaveChunkBatchFrom([store |-> st, tx |-> tx, ok |-> TRUE], startIndex, chunks, 0, failAt)

(* --------------------- the worker's message handler -------------------- *)

\* The data of a response: nothing, { success: true }, what loadSpatialIndex read,
\* the chunks loadChunks found, or the metadata of the index record.
NoData == [kind |-> "none", index |-> <<>>, chunks |-> <<>>]

SuccessData == [NoData EXCEPT !.kind = "success"]

\* A message to the worker with its payload, or with payload null.
Request(action, hasPayload, chunkIds, startIndex, chunks, indexData, totalChunks) ==
    [action |-> action, hasPayload |-> hasPayload, chunkIds |-> chunkIds,
     startIndex |-> startIndex, chunks |-> chunks, indexData |-> indexData,
     totalChunks |-> totalChunks]

\* What a handler run leaves: the database handle, the store, the answer.
Handled(db, st, success, data, error) ==
    [db |-> db, store |-> st, success |-> success, data |-> data, error |-> error]

\* No operation finds the database missing.
DbNeverMissing(db, action) == FALSE

\* if (!db) reject(new Error('DB not initialized')), the first statement of every
\* operation on the store; finalizeSave and initDB have none.
DbMissing(db, action) ==
    /\ ~db
    /\ action \in {"initSave", "saveChunkBatch", "loadSpatialIndex", "loadChunks",
                   "getMetadata", "clear"}

\* The try block of the message handler for one request: the switch over the
\* action and the operation it awaits. outcome says how the operation's
\* transactions end ("ok", or an error of the database); every throw and every
\* rejection lands in the catch, which answers with the error's message.
HandleMessage(db, st, request, outcome) ==
    LET fail(error) == Handled(db, st, FALSE, NoData, error)
        ok(data) == Handled(db, st, TRUE, data, "")
        a == request.action
        needsPayload == a \in {"initSave", "saveChunkBatch", "loadChunks"}
    IN IF a \notin {"init", "initSave", "saveChunkBatch", "finalizeSave",
                    "loadSpatialIndex", "loadChunks", "getMetadata", "clear"}
       THEN fail("Unknown action")
       ELSE IF needsPayload /\ ~request.hasPayload THEN fail("TypeError")
       ELSE IF DbMissing(db, a) THEN fail("DB not initialized")
       ELSE IF a = "finalizeSave" THEN ok(SuccessData)
       ELSE IF a = "init"
            THEN IF outcome = "ok" THEN Handled(TRUE, st, TRUE, SuccessData, "")
                 ELSE fail("open failed")
       ELSE IF a = "initSave"
            THEN Handled(db, initSave(st, request.indexData[1], request.totalChunks, outcome),
                         outcome = "ok",
                         IF outcome = "ok" THEN SuccessData ELSE NoData,
                         IF outcome = "ok" THEN "" ELSE "transaction failed")
       ELSE IF a = "saveChunkBatch"
            THEN LET w == saveChunkBatch(st, <<>>, request.startIndex, request.chunks,
                                         IF outcome = "ok" THEN 0 ELSE 1)
                 IN Handled(db, w.store, w.ok,
                            IF w.ok THEN SuccessData ELSE NoData,
                            IF w.ok THEN "" ELSE "transaction failed")
       ELSE IF outcome # "ok" THEN fail("transaction failed")
       ELSE IF a = "loadSpatialIndex"
            THEN ok([NoData EXCEPT !.kind = "index", !.index = loadSpatialIndex(st)])
       ELSE IF a = "loadChunks"
            THEN ok([NoData EXCEPT !.kind = "chunks",
                                   !.chunks = loadChunks(st, request.chunkIds)])
       ELSE IF a = "getMetadata"
            THEN ok([NoData EXCEPT !.kind = IF st.index = <<>> THEN "none" ELSE "metadata"])
       ELSE Handled(db, clearData(st), TRUE, SuccessData, "")

\* postMessage of the worker.
Message(action, id, success, data, error) ==
    [action |-> action, id |-> id, success |-> success, data |-> data, error |-> error]

\* The handler posts what it does before its first await: a progress message
\* on loadSpatialIndex, nothing on the other actions.
PostedAtStart(id, request) ==
    IF request.action = "loadSpatialIndex"
    THEN <<Message("progress", id, FALSE, NoData, "")>>
    ELSE <<>>

\* An error is not answered.
RespondOnSuccess(id, h) ==
    IF h.success THEN <<Message("response", id, TRUE, h.data, "")>> ELSE <<>>

\* The handler's last statement, in the try block or in the catch: one response
\* with the request's id.
Respond(id, h) == <<Message("response", id, h.success, h.data, h.error)>>

(* ------------------ StorageManager's message listener ------------------ *)

\* The promise that was pending longest.
OldestPending(pendingMessages, id) ==
    IF pendingMessages = {} THEN <<>>
    ELSE <<CHOOSE p \in pendingMessages : \A q \in pendingMessages : p <= q>>

\* pendingMessages.get(id): the entry of the response's id, when there is one.
GetPending(pendingMessages, id) ==
    IF id \in pendingMessages THEN <<id>> ELSE <<>>

\* A response that reports failure is dropped: its promise stays pending.
OnWorkerMessageSuccessOnly(m, message) ==
    IF message.action # "response" \/ ~message.success
       \/ message.id \notin m.pendingMessages
    THEN m
    ELSE [m EXCEPT
            !.pendingMessages = @ \ {message.id},
            !.settled = Append(@, [id |-> message.id, resolved |-> TRUE,
                                   data |-> message.data, error |-> ""])]

\* The promise is settled and its entry stays.
OnWorkerMessageKeepingEntry(m, message) ==
    IF message.action # "response" \/ message.id \notin m.pendingMessages THEN m
    ELSE [m EXCEPT
            !.settled = Append(@,
                [id |-> message.id,
                 resolved |-> message.success,
                 data |-> IF message.success THEN message.data ELSE NoData,
                 error |-> IF message.success THEN "" ELSE message.error])]

\* The listener on one message of the worker. m is StorageManager's side: the ids
\* with a pending promise and the settlements so far. A progress message is
\* logged; a response settles the pending promise of its id, with its data when
\* success is set and with its error otherwise, and removes it; a message of any
\* other action is ignored.
OnWorkerMessage(m, message) ==
    IF message.action = "progress" THEN m
    ELSE IF message.action # "response" THEN m
    ELSE LET pending == GetPending(m.pendingMessages, message.id)
         IN IF pending = <<>> THEN m
            ELSE [m EXCEPT
                    !.pendingMessages = @ \ {pending[1]},
                    !.settled = Append(@,
                        [id |-> pending[1],
                         resolved |-> message.success,
                         data |-> IF message.success THEN message.data ELSE NoData,
                         error |-> IF message.success THEN "" ELSE message.error])]

(* ---------------- the save protocol: StorageManager's side ------------- *)

\* A message to the worker; the fields an action does not use are empty.
WorkerRequest(action, indexData, totalChunks, startIndex, chunks) ==
    [action |-> action, indexData |-> indexData, totalChunks |-> totalChunks,
     startIndex |-> startIndex, chunks |-> chunks]

InitSaveRequest(indexData, featureChunks) ==
    WorkerRequest("initSave", <<indexData>>, Len(featureChunks), -1, <<>>)

\* The batch runs one chunk past batchEnd.
StreamBatchInclusive(featureChunks, i) ==
    SubSeq(featureChunks, i + 1,
           Min(Min(i + STREAM_BATCH_SIZE, Len(featureChunks)) + 1, Len(featureChunks)))

\* featureChunks.slice(i, batchEnd) with batchEnd = min(i + STREAM_BATCH_SIZE, length)
StreamBatch(featureChunks, i) ==
    SubSeq(featureChunks, i + 1, Min(i + STREAM_BATCH_SIZE, Len(featureChunks)))

SaveChunkBatchRequest(featureChunks, i) ==
    WorkerRequest("saveChunkBatch", <<>>, 0, i, StreamBatch(featureChunks, i))

FinalizeSaveRequest == WorkerRequest("finalizeSave", <<>>, 0, -1, <<>>)

\* The loop ends before the last batch.
StreamLoopStopsEarly(i, length) == i + STREAM_BATCH_SIZE < length

\* The condition of the streaming loop: i < featureChunks.length
StreamLoopRuns(i, length) == i < length

\* No answer counts as an error.
AnswerNeverRejects(success) == FALSE

\* The message listener rejects the pending promise of an answer with
\* success = false; the await in saveSpatialIndex then throws into its catch.
AnswerRejects(success) == ~success

\* saveSpatialIndex between two awaits. s is the call's state: where it waits
\* (phase), the loop variable i, the requests sent and the answers received.
\* With the loop variable at i the call sends the next batch or, the loop over,
\* finalizeSave.
SendNext(s, featureChunks, i) ==
    LET request == IF StreamLoopRuns(i, Len(featureChunks))
                   THEN SaveChunkBatchRequest(featureChunks, i)
                   ELSE FinalizeSaveRequest
    IN [s EXCEPT !.phase = IF StreamLoopRuns(i, Len(featureChunks))
                           THEN "stream" ELSE "finalize",
                 !.i = i,
                 !.sent = Append(s.sent, request),
                 !.request = <<request>>]

\* The answer to the awaited request arrives: an error ends the call with false;
\* after initSave the loop starts at 0, after a batch it goes on at
\* i + STREAM_BATCH_SIZE, after finalizeSave the call returns true.
AfterAnswer(s, featureChunks, success) ==
    LET t == [s EXCEPT !.acks = Append(s.acks, success), !.response = <<>>]
    IN IF AnswerRejects(success) THEN [t EXCEPT !.phase = "done", !.result = "false"]
       ELSE IF s.phase = "init" THEN SendNext(t, featureChunks, 0)
       ELSE IF s.phase = "stream"
            THEN SendNext(t, featureChunks, s.i + STREAM_BATCH_SIZE)
       ELSE [t EXCEPT !.phase = "done", !.result = "true"]

\* The batch loop of saveSpatialIndex from chunk i on when only the next
\* `batches` saveChunkBatch requests succeed.
RECURSIVE StreamBatches(_, _, _, _)
StreamBatches(st, featureChunks, i, batches) ==
    IF batches = 0 \/ ~StreamLoopRuns(i, Len(featureChunks)) THEN st
    ELSE StreamBatches(
             saveChunkBatch(st, <<>>, i, StreamBatch(featureChunks, i), 0).store,
             featureChunks, i + STREAM_BATCH_SIZE, batches - 1)

\* The store after a saveSpatialIndex call that returned false: initSave and the
\* first `batches` batches were written, the next batch's transaction failed and
\* wrote nothing.
saveSpatialIndexAborted(st, indexData, featureChunks, batches) ==
    StreamBatches(initSave(st, indexData, Len(featureChunks), "ok"),
                  featureChunks, 0, batches)

(* ------------------------------- inputs ------------------------------- *)

\* The features a generated upload is made of.
FeatureDomain == {Point(0, 0), Point(3, 0), Point(0, -2), Polygon}

\* The sizes of the source groups of a generated upload, in source order.
GroupSizes == UNION {[1..n -> 0..MaxGroupSize] : n \in 1..MaxGroups}

\* The features of a generated upload repeat one of these patterns.
Patterns == [1..PatternLen -> FeatureDomain]

RECURSIVE SumTo(_, _)
SumTo(sizes, n) == IF n = 0 THEN 0 ELSE sizes[n] + SumTo(sizes, n - 1)

\* The parsed groups with these sizes, their features taken from the pattern.
GroupsOf(sizes, pattern) ==
    [g \in 1..Len(sizes) |->
        [j \in 1..sizes[g] |->
            pattern[((SumTo(sizes, g - 1) + j - 1) % PatternLen) + 1]]]

GeneratedGroups == {GroupsOf(sizes, pattern) : sizes \in GroupSizes, pattern \in Patterns}

\* The position and radius of the eager queries.
EagerQueries ==
    {[lon |-> c[1], lat |-> c[2], radius |-> r] :
        c \in {<<0, 0>>, <<1, -1>>}, r \in 0..MaxRadius}

\* The upload of the cache runs: three shapefiles; the cells (0,0) and (2,0) hold
\* features of two chunks each, the cell (4,0) of one.
CacheGroups ==
    << <<Point(0, 0)>>,
       <<Point(1, 0), Point(4, 0)>>,
       <<Point(5, 0), Point(8, 0)>> >>

\* The queries of the cache runs: they need the chunks {0, 1}, {1, 2} and {2}.
CacheQueries ==
    {[lon |-> 0, lat |-> 0, radius |-> 1],
     [lon |-> 4, lat |-> 0, radius |-> 1],
     [lon |-> 8, lat |-> 0, radius |-> 0]}

\* The cacheOptions of the cache runs: applied limits 1 and 2.
CacheOptionSets ==
    {[maxCachedChunks |-> 1, isMobile |-> FALSE],
     [maxCachedChunks |-> 2, isMobile |-> TRUE]}

\* The hints of a tuneChunkCache call; -1 stands for a field the caller leaves out.
NoHints ==
    [deviceMemory |-> -1, chunkCount |-> -1, isMobile |-> FALSE,
     isOlderiPad |-> FALSE, maxCachedChunks |-> -1]

\* navigator.deviceMemory of the tuning runs, in GB.
MemoryHints == {-1, 1, 2, 4, 6, 8}

\* chunkCount of the tuning runs.
CountHints == {-1, 1, 5, 25, 50, 250}

\* The caller's maxCachedChunks of the tuning runs.
CeilingHints == {-1, 1, 5, 10, 30, 60}

TuneHints ==
    {[deviceMemory |-> m, chunkCount |-> c, isMobile |-> mobile,
      isOlderiPad |-> iPad, maxCachedChunks |-> ceiling] :
        m \in MemoryHints, c \in CountHints, mobile \in BOOLEAN,
        iPad \in BOOLEAN, ceiling \in CeilingHints}

\* The cacheOptions object that carries the hints.
CacheOptionsOf(h) ==
    LET fields == {"isMobile", "isOlderiPad"}
                     \cup (IF h.deviceMemory # -1 THEN {"deviceMemory"} ELSE {})
                     \cup (IF h.chunkCount # -1 THEN {"chunkCount"} ELSE {})
                     \cup (IF h.maxCachedChunks # -1 THEN {"maxCachedChunks"} ELSE {})
    IN [f \in fields |-> h[f]]

\* The centre cells of the prefetches of the cache runs.
PrefetchCenters == {<<0, 0>>}

\* The uploads of the save runs: n shapefiles of one feature each, so n chunks.
\* One, a full batch, a full batch and one more, two full batches and one more;
\* two data sets of each size.
SaveChunkCounts ==
    {1, STREAM_BATCH_SIZE, STREAM_BATCH_SIZE + 1, 2 * STREAM_BATCH_SIZE + 1}

SaveDataSets == {0, 1}

SaveGroupsOf(n, d) == [g \in 1..n |-> <<Point(2 * (g % 3), 2 * d)>>]

SaveGroups == {SaveGroupsOf(n, d) : n \in SaveChunkCounts, d \in SaveDataSets}

\* What handleFolderUpload passes to saveSpatialIndex for these groups.
FeatureChunksOf(groups) ==
    LET byShapefile == loadShapefilesFromFolder(groups)
    IN [i \in 1..Len(byShapefile) |-> byShapefile[i].features]

IndexDataOf(groups) ==
    LET byShapefile == loadShapefilesFromFolder(groups)
    IN SerializeData(IndexedFeatures(CombinedFeatures(byShapefile)),
                     ChunkBoundariesFrom(byShapefile, 0))

\* The store the message runs start from: the cache runs' upload, saved.
SavedStore ==
    saveSpatialIndex(EmptyStore, IndexDataOf(CacheGroups), FeatureChunksOf(CacheGroups))

\* The messages of the message runs: every action of the handler's switch, the
\* actions that read their payload also with payload null, and an action the
\* switch does not know. loadChunks asks for a stored chunk, or for a stored and
\* an absent one; initSave and saveChunkBatch carry a one-chunk data set.
WorkerRequests ==
    LET plain(action) == Request(action, FALSE, <<>>, -1, <<>>, <<>>, 0)
        groups == SaveGroupsOf(1, 1)
    IN {plain(a) : a \in {"init", "finalizeSave", "loadSpatialIndex", "getMetadata",
                          "clear", "initSave", "saveChunkBatch", "loadChunks",
                          "compact"}}
       \cup {Request("loadChunks", TRUE, ids, -1, <<>>, <<>>, 0) :
                ids \in {<<1>>, <<2, 7, 0>>}}
       \cup {Request("initSave", TRUE, <<>>, -1, <<>>, <<IndexDataOf(groups)>>, 1),
             Request("saveChunkBatch", TRUE, <<>>, 0, FeatureChunksOf(groups), <<>>, 0)}

\* A folder of one shapefile more than a batch holds, the first with two
\* features, lying in three cells of one row.
SessionGroups ==
    [g \in 1..(STREAM_BATCH_SIZE + 1) |->
        IF g = 1 THEN <<Point(2, 0), Point(4, 0)>> ELSE <<Point(2 * (g % 3), 0)>>]

\* Queries on the cell of the last shapefile, on that cell and its neighbours,
\* and on the cell at the other end of the row.
SessionQueries ==
    {[lon |-> 4, lat |-> 0, radius |-> 0],
     [lon |-> 4, lat |-> 0, radius |-> 2],
     [lon |-> 0, lat |-> 0, radius |-> 1]}

\* An index record whose chunk boundaries are cut to the first k, or lack the
\* k-th: the grid still holds the indices of the chunks left out.
CutBoundaries(data, k) ==
    [data EXCEPT !.chunkBoundaries = SubSeq(@, 1, k)]

HoledBoundaries(data, k) ==
    [data EXCEPT !.chunkBoundaries = SubSeq(@, 1, k - 1) \o SubSeq(@, k + 1, Len(@))]

MalformedIndexData(data) ==
    {CutBoundaries(data, 1), CutBoundaries(data, STREAM_BATCH_SIZE),
     HoledBoundaries(data, 2)}

\* Queries with a radius in metres, around the multiples of the metres of one
\* cell; the position is in model units.
RangeQueries ==
    {[lon |-> c[1], lat |-> c[2],
      radius |-> n * (METERS_PER_DEGREE \div CellsPerDegree) + d] :
        c \in {<<0, 0>>, <<3, 0>>, <<0, -2>>, <<3, -2>>},
        n \in 0..MaxRangeCells, d \in 0..9}

(* ------------------------------- state -------------------------------- *)

VARIABLES
    sourceGroups,   \* the parsed shapefile groups of the upload, in source order
    store,          \* the object store behind the persistence worker
    loaded,         \* how DataLoader got its index: "none", "api", "folder", "single", "restored"
    index,          \* the SpatialIndex instance
    now,            \* Date.now()
    calls,          \* the ensureChunksLoaded calls awaiting the chunk loader, by call number
    pending,        \* the chunk loader's requests that are not answered yet
    nextCall,       \* the number of the next ensureChunksLoaded call
    last,           \* the ensureChunksLoaded call or query that completed in the last step
    save,           \* the saveSpatialIndex call in progress or completed last
    worker          \* the persistence worker, its message channel and StorageManager's pending promises

vars == <<sourceGroups, store, loaded, index, now, calls, pending, nextCall, last, save, worker>>

NoCalls == [c \in {} |-> <<>>]

NoQuery == [lon |-> 0, lat |-> 0, radius |-> 0]

\* No call has completed.
NoCall ==
    [kind |-> "none", call |-> 0, query |-> NoQuery, ids |-> <<>>, toLoad |-> <<>>,
     startLoaded |-> {}, startTime |-> 0, startCapacity |-> 0, expect |-> {},
     loaded |-> FALSE, preEvict |-> <<>>, evicted |-> <<>>, capacity |-> 0,
     resident |-> {}, features |-> <<>>,
     index |-> -1, chunkId |-> -1, localIndex |-> -1, outcome |-> "none",
     cells |-> <<>>,
     hints |-> NoHints, applied |-> 0]

\* No saveSpatialIndex call yet. sent and acks are the requests of the call and
\* their answers in order, request and response the message on its way to the
\* worker or back, tx the records written by each transaction of the call's
\* batches, progress the reports made to the caller's progress callback,
\* startStore the store the call found, prevGroups and prevResult the input and
\* the result of the call before, count the calls so far.
NoSave ==
    [phase |-> "idle", i |-> 0, sent |-> <<>>, acks |-> <<>>, request |-> <<>>,
     response |-> <<>>, tx |-> <<>>, progress |-> <<>>, result |-> "none",
     startStore |-> EmptyStore, prevGroups |-> <<>>, prevResult |-> "none",
     count |-> 0]

\* The worker before its first message: db is the worker's database handle,
\* messageId and pendingMessages are StorageManager's, requests the messages
\* sent by id, toWorker the ids the worker has not received yet, running the ids
\* whose handler awaits its operation, noDb those of them whose operation found
\* no database when it started, callers the ensureChunksLoaded call that awaits
\* the answer of a loadChunks message, by id, posted the worker's messages in order,
\* received how many of them the listener has handled, settled the promises
\* settled so far, handled the id answered in the last step.
NoWorker ==
    [db |-> FALSE, messageId |-> 0, pendingMessages |-> {}, requests |-> <<>>,
     toWorker |-> <<>>, running |-> {}, noDb |-> {}, callers |-> <<>>, posted |-> <<>>, received |-> 0,
     settled |-> <<>>, handled |-> -1]

InitWith(groups) ==
    /\ sourceGroups \in groups
    /\ store = EmptyStore
    /\ loaded = "none"
    /\ index = NewSpatialIndex
    /\ now = 0
    /\ calls = NoCalls
    /\ pending = <<>>
    /\ nextCall = 1
    /\ last = NoCall
    /\ save = NoSave
    /\ worker = NoWorker

Init == InitWith({CacheGroups})

InitBuild == InitWith(GeneratedGroups)

\* The message runs start in a session over a saved upload, before or after the
\* worker has opened its database.
InitWorker ==
    /\ sourceGroups = CacheGroups
    /\ store = SavedStore
    /\ loaded = "none"
    /\ index = NewSpatialIndex
    /\ now = 0
    /\ calls = NoCalls
    /\ pending = <<>>
    /\ nextCall = 1
    /\ last = NoCall
    /\ save = NoSave
    /\ worker \in {NoWorker, [NoWorker EXCEPT !.db = TRUE]}

(* --------------------------- DataLoader actions ----------------------- *)

\* new SpatialIndex(); indexFeatures(geojson) on all the parsed features: the eager
\* index.
IndexFeatures ==
    /\ loaded = "none"
    /\ loaded' = "api"
    /\ index' = IndexedFeatures(Concat(sourceGroups))
    /\ last' = NoCall
    /\ UNCHANGED <<worker, sourceGroups, save, store, now, calls, pending, nextCall>>

\* handleFolderUpload: parse the groups, index the combined features, derive the
\* chunk boundaries, serialize, save index and chunks, enable lazy loading. With
\* no group that yields a feature loadShapefilesFromFolder throws and nothing
\* is built.
HandleFolderUpload ==
    LET byShapefile == loadShapefilesFromFolder(sourceGroups)
        features == CombinedFeatures(byShapefile)
        indexed == IndexedFeatures(features)
        chunkBoundaries == ChunkBoundariesFrom(byShapefile, 0)
        featureChunks == [i \in 1..Len(byShapefile) |-> byShapefile[i].features]
    IN /\ store.index = <<>>
       /\ Len(features) > 0
       /\ store' = saveSpatialIndex(store, SerializeData(indexed, chunkBoundaries),
                                    featureChunks)
       /\ index' = enableLazyLoading(SerializeInstance(indexed, chunkBoundaries), <<>>)
       /\ loaded' = "folder"
       /\ calls' = NoCalls
       /\ pending' = <<>>
       /\ last' = NoCall
       /\ UNCHANGED <<worker, sourceGroups, save, now, nextCall>>

\* handleSingleFileUpload: the first group is the file; it becomes one chunk.
HandleSingleFileUpload ==
    LET features == sourceGroups[1]
        indexed == IndexedFeatures(features)
        chunkBoundaries == SingleFileBoundaries(Len(indexed.allFeatures))
    IN /\ store.index = <<>>
       /\ store' = saveSpatialIndex(store, SerializeData(indexed, chunkBoundaries),
                                    <<indexed.allFeatures>>)
       /\ index' = enableLazyLoading(SerializeInstance(indexed, chunkBoundaries), <<>>)
       /\ loaded' = "single"
       /\ calls' = NoCalls
       /\ pending' = <<>>
       /\ last' = NoCall
       /\ UNCHANGED <<worker, sourceGroups, save, now, nextCall>>

\* restoreData in the session after the upload: the index record is deserialized
\* into a new SpatialIndex and lazy loading is enabled; no chunk is read. Nothing
\* of the session before reaches the new one, so the session before is taken to
\* end before its first query.
RestoreData ==
    /\ store.index # <<>>
    /\ loaded = "folder"
    /\ nextCall = 1
    /\ index' = enableLazyLoading(
                    deserialize(NewSpatialIndex, loadSpatialIndex(store)[1].indexData), <<>>)
    /\ loaded' = "restored"
    /\ calls' = NoCalls
    /\ pending' = <<>>
    /\ last' = NoCall
    /\ UNCHANGED <<worker, sourceGroups, save, store, now, nextCall>>

\* handleFolderUpload when saveSpatialIndex returns false after `batches`
\* batches: the handler does not look at the result and enables lazy loading on
\* the index it built.
HandleFolderUploadAborted(batches) ==
    LET byShapefile == loadShapefilesFromFolder(sourceGroups)
        features == CombinedFeatures(byShapefile)
        indexed == IndexedFeatures(features)
        chunkBoundaries == ChunkBoundariesFrom(byShapefile, 0)
        featureChunks == [i \in 1..Len(byShapefile) |-> byShapefile[i].features]
    IN /\ store.index = <<>>
       /\ Len(features) > 0
       /\ batches * STREAM_BATCH_SIZE < Len(featureChunks)
       /\ store' = saveSpatialIndexAborted(store,
                       SerializeData(indexed, chunkBoundaries), featureChunks, batches)
       /\ index' = enableLazyLoading(SerializeInstance(indexed, chunkBoundaries), <<>>)
       /\ loaded' = "folder"
       /\ calls' = NoCalls
       /\ pending' = <<>>
       /\ last' = NoCall
       /\ UNCHANGED <<worker, sourceGroups, save, now, nextCall>>

\* A new index deserialized from an index record whose boundaries are malformed,
\* with lazy loading enabled as restoreData does.
DeserializeMalformed(data) ==
    /\ loaded = "folder"
    /\ nextCall = 1
    /\ index' = enableLazyLoading(deserialize(NewSpatialIndex, data), <<>>)
    /\ loaded' = "malformed"
    /\ calls' = NoCalls
    /\ pending' = <<>>
    /\ last' = NoCall
    /\ UNCHANGED <<worker, sourceGroups, save, store, now, nextCall>>

(* -------------------------- SpatialIndex actions ---------------------- *)

\* enableLazyLoading(chunkLoader, cacheOptions) with options, on a loaded index.
EnableLazyLoading(cacheOptions) ==
    /\ loaded \in {"folder", "single", "restored"}
    /\ index.maxCachedChunks # TunedLimit(cacheOptions)
    /\ index' = enableLazyLoading(index, <<cacheOptions>>)
    /\ last' = NoCall
    /\ UNCHANGED <<worker, sourceGroups, save, store, loaded, now, calls, pending, nextCall>>

\* enableLazyLoading(chunkLoader, cacheOptions) with the hints of the device and
\* the dataset: the limit tuneChunkCache applies is returned.
TuneChunkCache(h) ==
    /\ loaded \in {"folder", "single", "restored"}
    /\ index' = enableLazyLoading(index, <<CacheOptionsOf(h)>>)
    /\ last' = [NoCall EXCEPT
                  !.kind = "tune", !.hints = h,
                  !.applied = enableLazyLoading(index, <<CacheOptionsOf(h)>>).maxCachedChunks]
    /\ UNCHANGED <<worker, sourceGroups, save, store, loaded, now, calls, pending, nextCall>>

\* Date.now() advances. The access times are only ever compared with each other,
\* so the clock is taken to advance only past a time that some cache entry holds.
Tick ==
    /\ now < MaxTime
    /\ \E i \in 1..Len(index.chunkCache) : index.chunkCache[i].lastAccess = now
    /\ now' = now + 1
    /\ last' = NoCall
    /\ UNCHANGED <<worker, sourceGroups, save, store, loaded, index, calls, pending, nextCall>>

\* The chunk loader's invocations of one ensureChunksLoaded call: one request with
\* all of toLoad, none when toLoad is empty.
LoaderRequests(call, toLoad) ==
    IF Len(toLoad) > 0 THEN <<[call |-> call, ids |-> toLoad]>> ELSE <<>>

\* The result of queryRadius run from this state with nothing else running: the
\* global indices of the features it returns.
AloneResult(this, st, t, q) ==
    LET ids == NeededChunks(this, CellsToCheck(q.lon, q.lat, q.radius), <<>>)
        toLoad == ToLoad(this, ids)
        t1 == IF Len(toLoad) > 0
              THEN evictOldChunks(StoreChunks(this, loadChunks(st, toLoad), t))
              ELSE RefreshAll(this, ids, t)
        found == QueryScan(t1, q.lon, q.lat, q.radius).features
    IN {found[i].index : i \in 1..Len(found)}

\* ensureChunksLoaded(chunkIds) up to its await, for a query or a prefetch. With
\* chunks to load the loader is asked and the call waits; with every chunk
\* resident the chunks' access times are refreshed, the call completes, and a
\* query scans.
EnsureChunksLoadedStart(kind, q, chunkIds) ==
    LET toLoad == ToLoad(index, chunkIds)
        rec == [NoCall EXCEPT
                  !.kind = kind, !.call = nextCall, !.query = q, !.ids = chunkIds,
                  !.toLoad = toLoad,
                  !.startLoaded = Range(chunkIds) \cap index.loadedChunks,
                  !.startTime = now,
                  !.startCapacity = index.maxCachedChunks,
                  !.expect = IF kind = "query"
                             THEN AloneResult(index, store, now, q) ELSE {}]
    IN /\ nextCall <= MaxCalls
       /\ nextCall' = nextCall + 1
       /\ IF Len(toLoad) > 0
          THEN /\ calls' = [c \in DOMAIN calls \cup {nextCall} |->
                               IF c = nextCall THEN rec ELSE calls[c]]
               /\ pending' = pending \o LoaderRequests(nextCall, toLoad)
               /\ last' = NoCall
               /\ UNCHANGED index
          ELSE LET t1 == RefreshAll(index, chunkIds, now)
                   r == IF kind = "query"
                        THEN QueryScan(t1, q.lon, q.lat, q.radius)
                        ELSE [this |-> t1, features |-> <<>>]
               IN /\ index' = r.this
                  /\ last' = [rec EXCEPT
                                !.preEvict = t1.chunkCache,
                                !.capacity = t1.maxCachedChunks,
                                !.resident = t1.loadedChunks,
                                !.features = r.features]
                  /\ UNCHANGED <<calls, pending>>

\* queryRadius(lon, lat, radius) in lazy mode, up to the await of
\* ensureChunksLoaded (and to its end when nothing has to be loaded).
QueryRadiusLazy(q) ==
    /\ index.lazyMode
    /\ EnsureChunksLoadedStart("query", q,
           NeededChunks(index, CellsToCheck(q.lon, q.lat, q.radius), <<>>))
    /\ UNCHANGED <<worker, sourceGroups, save, store, loaded, now>>

\* serialize(chunkBoundaries) called again on the index in use, with the one
\* boundary of a single file: the lookup table is rebuilt on the same instance.
Reserialize ==
    /\ loaded \in {"folder", "restored"}
    /\ Len(index.chunkBoundaries) > 1
    /\ index' = SerializeInstance(index, SingleFileBoundaries(index.featureCount))
    /\ last' = NoCall
    /\ UNCHANGED <<worker, sourceGroups, save, store, loaded, now, calls, pending,
                   nextCall>>

\* queryRadius(lon, lat, radius), radius in metres, up to its list cellsToCheck.
QueryCells(q) ==
    LET center == parseCellKey(getCellKey(q.lon, q.lat))
        cellRange == CellRangeOfMeters(q.radius)
    IN /\ last' = [NoCall EXCEPT
                     !.kind = "cells", !.query = q,
                     !.cells = CellRows(center[1], center[2], -cellRange, cellRange)]
       /\ UNCHANGED <<worker, sourceGroups, save, store, loaded, index, now, calls,
                      pending, nextCall>>

\* A lazy queryRadius started while no other call is waiting for the loader.
QueryRadiusAlone(q) ==
    /\ DOMAIN calls = {}
    /\ QueryRadiusLazy(q)

\* What a caller of getFeature(index) sees: the feature or null. Neither
\* getFeature nor resolveChunkForIndex has a throw statement or a failing access.
GetFeatureOutcome(this, i) ==
    IF getFeature(this, i).found THEN "feature" ELSE "null"

\* getFeature(index) in lazy mode, for an index the grid holds.
GetFeature(i) ==
    LET r == resolveChunkForIndex(index, i)
    IN /\ index.lazyMode
       /\ \E k \in DOMAIN index.grid : Includes(index.grid[k], i)
       /\ index' = [index EXCEPT !.lastChunkLookup = getFeature(index, i).lookup]
       /\ last' = [NoCall EXCEPT
                     !.kind = "getFeature", !.index = i, !.chunkId = r.chunkId,
                     !.localIndex = r.localIndex,
                     !.outcome = GetFeatureOutcome(index, i)]
       /\ UNCHANGED <<worker, sourceGroups, save, store, loaded, now, calls, pending,
                      nextCall>>

\* clear() on the index, chunks resident or not.
Clear ==
    /\ loaded \in {"folder", "cleared"}
    /\ index' = clear(index)
    /\ loaded' = "cleared"
    /\ last' = [NoCall EXCEPT !.kind = "clear"]
    /\ UNCHANGED <<worker, sourceGroups, save, store, now, calls, pending, nextCall>>

\* The cells of prefetchNeighboringChunks: range + 2 cells around the centre.
PrefetchCells(centerKey, range) ==
    LET center == parseCellKey(centerKey)
    IN CellRows(center[1], center[2], -(range + 2), range + 2)

\* The chunk ids of the cells that are not resident, as Array.from lists the Set.
RECURSIVE PrefetchChunks(_, _, _)
PrefetchChunks(this, cells, acc) ==
    IF cells = <<>> THEN acc
    ELSE PrefetchChunks(this, Tail(cells),
             AddAllUnique(acc, ToLoad(this, getChunksForCell(this, Head(cells)))))

\* prefetchNeighboringChunks(centerKey, range): ensureChunksLoaded for the chunks
\* found, not awaited; nothing when there is none.
PrefetchNeighboringChunks(centerKey, range) ==
    /\ index.lazyMode
    /\ PrefetchChunks(index, PrefetchCells(centerKey, range), <<>>) # <<>>
    /\ EnsureChunksLoadedStart("prefetch", NoQuery,
           PrefetchChunks(index, PrefetchCells(centerKey, range), <<>>))
    /\ UNCHANGED <<worker, sourceGroups, save, store, loaded, now>>

\* The chunk loader answers request i (in any order): ensureChunksLoaded resumes,
\* stores the chunks received, evicts and completes; a query then scans.
LoaderRespond(i) ==
    LET req == pending[i]
        rec == calls[req.call]
        chunks == loadChunks(store, req.ids)
        t1 == StoreChunks(index, chunks, now)
        t2 == evictOldChunks(t1)
        q == rec.query
        r == IF rec.kind = "query"
             THEN QueryScan(t2, q.lon, q.lat, q.radius)
             ELSE [this |-> t2, features |-> <<>>]
    IN /\ index' = r.this
       /\ pending' = SubSeq(pending, 1, i - 1) \o SubSeq(pending, i + 1, Len(pending))
       /\ calls' = [c \in DOMAIN calls \ {req.call} |-> calls[c]]
       /\ last' = [rec EXCEPT
                     !.loaded = TRUE,
                     !.preEvict = t1.chunkCache,
                     !.evicted = ToRemove(t1),
                     !.capacity = t2.maxCachedChunks,
                     !.resident = t2.loadedChunks,
                     !.features = r.features]
       /\ UNCHANGED <<worker, sourceGroups, save, store, loaded, now, nextCall>>

\* queryRadius(lon, lat, radius) on the eager index: the scan alone.
QueryRadiusEager(q) ==
    /\ loaded = "api"
    /\ ~index.lazyMode
    /\ last' = [NoCall EXCEPT
                  !.kind = "eager", !.query = q,
                  !.features = QueryScan(index, q.lon, q.lat, q.radius).features]
    /\ UNCHANGED <<worker, sourceGroups, save, store, loaded, index, now, calls, pending, nextCall>>

\* resolveChunkForIndex(i) for a global index of the loaded index: the chunk id and
\* local index returned; the one-entry lookup cache keeps the range resolved.
ResolveChunkForIndex(i) ==
    LET r == resolveChunkForIndex(index, i)
    IN /\ loaded \in {"folder", "single", "restored"}
       /\ i < index.featureCount
       /\ index' = [index EXCEPT !.lastChunkLookup = r.lookup]
       /\ last' = [NoCall EXCEPT
                     !.kind = "resolve", !.index = i,
                     !.chunkId = r.chunkId, !.localIndex = r.localIndex]
       /\ UNCHANGED <<worker, sourceGroups, save, store, loaded, now, calls, pending, nextCall>>

(* ------------------------ StorageManager actions ---------------------- *)

\* handleFolderUpload of the parsed groups up to its await of saveSpatialIndex,
\* and saveSpatialIndex up to its first await: initSave is posted to the worker.
\* The progress callback the handler passes as the fourth argument has no
\* parameter to land in. The handlers run one after the other: a call starts when
\* the call before has returned.
SaveSpatialIndex(groups) ==
    LET request == InitSaveRequest(IndexDataOf(groups), FeatureChunksOf(groups))
    IN /\ loaded = "none"
       /\ save.phase \in {"idle", "done"}
       /\ save.count < MaxSaves
       /\ sourceGroups' = groups
       /\ save' = [NoSave EXCEPT !.phase = "init",
                                 !.sent = <<request>>,
                                 !.request = <<request>>,
                                 !.startStore = store,
                                 !.prevGroups = sourceGroups,
                                 !.prevResult = save.result,
                                 !.count = save.count + 1]
       /\ UNCHANGED <<worker, store, loaded, index, now, calls, pending, nextCall, last>>

\* The worker's message handler on initSave.
WorkerInitSave(outcome) ==
    /\ save.request # <<>>
    /\ save.request[1].action = "initSave"
    /\ store' = initSave(store, save.request[1].indexData[1],
                         save.request[1].totalChunks, outcome)
    /\ save' = [save EXCEPT !.request = <<>>, !.response = <<outcome = "ok">>]
    /\ UNCHANGED <<worker, sourceGroups, loaded, index, now, calls, pending, nextCall, last>>

\* The worker's message handler on saveChunkBatch.
WorkerSaveChunkBatch(failAt) ==
    /\ save.request # <<>>
    /\ save.request[1].action = "saveChunkBatch"
    /\ failAt <= CeilDiv(Len(save.request[1].chunks), SUB_BATCH_SIZE)
    /\ LET w == saveChunkBatch(store, save.tx, save.request[1].startIndex,
                               save.request[1].chunks, failAt)
       IN /\ store' = w.store
          /\ save' = [save EXCEPT !.request = <<>>, !.response = <<w.ok>>,
                                  !.tx = w.tx]
    /\ UNCHANGED <<worker, sourceGroups, loaded, index, now, calls, pending, nextCall, last>>

\* The worker's message handler on finalizeSave: it resolves, whatever happened.
WorkerFinalizeSave ==
    /\ save.request # <<>>
    /\ save.request[1].action = "finalizeSave"
    /\ save' = [save EXCEPT !.request = <<>>, !.response = <<TRUE>>]
    /\ UNCHANGED <<worker, sourceGroups, store, loaded, index, now, calls, pending, nextCall, last>>

\* The message listener settles the pending promise and saveSpatialIndex runs to
\* its next await or to its return.
SaveResume ==
    /\ save.response # <<>>
    /\ save' = AfterAnswer(save, FeatureChunksOf(sourceGroups), save.response[1])
    /\ UNCHANGED <<worker, sourceGroups, store, loaded, index, now, calls, pending, nextCall, last>>

(* ----------------------- the message channel actions ------------------ *)

\* sendToWorker(action, payload): the next id, a pending promise under it, the
\* message posted. requests[id + 1] is the message with the id.
SendToWorker(request) ==
    /\ worker.messageId < MaxMessages
    /\ worker' = [worker EXCEPT
                    !.messageId = @ + 1,
                    !.pendingMessages = @ \cup {worker.messageId},
                    !.requests = Append(@, request),
                    !.toWorker = Append(@, worker.messageId),
                    !.handled = -1]
    /\ UNCHANGED <<sourceGroups, store, loaded, index, now, calls, pending, nextCall, last, save>>

\* The worker's message event for the oldest message: the handler runs to its
\* first await, the operation it calls having looked at the database handle.
WorkerReceive ==
    /\ worker.toWorker # <<>>
    /\ LET id == Head(worker.toWorker)
       IN worker' = [worker EXCEPT
                       !.toWorker = Tail(@),
                       !.running = @ \cup {id},
                       !.noDb = IF worker.db THEN @ ELSE @ \cup {id},
                       !.posted = @ \o PostedAtStart(id, worker.requests[id + 1]),
                       !.handled = -1]
    /\ UNCHANGED <<sourceGroups, store, loaded, index, now, calls, pending, nextCall, last, save>>

\* A handler's operation ends and the handler posts its answer; the handlers of
\* the messages received end in any order. An operation that found no database
\* when it started has failed, whatever init did since; init opens the database.
WorkerRespond(id, outcome) ==
    /\ id \in worker.running
    /\ LET h == HandleMessage(id \notin worker.noDb, store, worker.requests[id + 1],
                              outcome)
       IN /\ store' = h.store
          /\ worker' = [worker EXCEPT
                          !.db = @ \/ h.db,
                          !.running = @ \ {id},
                          !.noDb = @ \ {id},
                          !.posted = @ \o Respond(id, h),
                          !.handled = id]
    /\ UNCHANGED <<sourceGroups, loaded, index, now, calls, pending, nextCall, last, save>>

\* What StorageManager's message event does to the channel: the listener handles
\* the worker's oldest message.
ListenerTakes ==
    /\ worker.received < Len(worker.posted)
    /\ LET m == OnWorkerMessage(worker, worker.posted[worker.received + 1])
       IN worker' = [m EXCEPT !.received = @ + 1, !.handled = -1]

\* StorageManager's message event for the worker's oldest message.
ListenerReceive ==
    /\ ListenerTakes
    /\ UNCHANGED <<sourceGroups, store, loaded, index, now, calls, pending, nextCall, last, save>>

\* queryRadius in lazy mode with the chunk loader of DataLoader: the chunks to
\* load are asked of the worker with a loadChunks message, whose answer the
\* call awaits.
QueryRadiusViaWorker(q) ==
    LET chunkIds == NeededChunks(index, CellsToCheck(q.lon, q.lat, q.radius), <<>>)
        toLoad == ToLoad(index, chunkIds)
    IN /\ index.lazyMode
       /\ EnsureChunksLoadedStart("query", q, chunkIds)
       /\ worker' = IF toLoad = <<>> THEN [worker EXCEPT !.handled = -1]
                    ELSE [worker EXCEPT
                            !.messageId = @ + 1,
                            !.pendingMessages = @ \cup {worker.messageId},
                            !.requests = Append(@, Request("loadChunks", TRUE, toLoad,
                                                           -1, <<>>, <<>>, 0)),
                            !.toWorker = Append(@, worker.messageId),
                            !.callers = Append(@, nextCall),
                            !.handled = -1]
       /\ UNCHANGED <<sourceGroups, save, store, loaded, now>>

\* The chunks are read from the store whatever the worker answered.
StorageManagerLoadChunksFromStore(settlement) ==
    loadChunks(store, worker.requests[settlement.id + 1].chunkIds)

\* StorageManager.loadChunks after its sendToWorker promise was settled: the
\* chunks of the answer, or [] when the promise was rejected.
StorageManagerLoadChunks(settlement) ==
    IF settlement.resolved THEN settlement.data.chunks ELSE <<>>

\* StorageManager's message event for the worker's oldest message, and what runs
\* when it settles the promise of a loadChunks message: StorageManager.loadChunks
\* returns, ensureChunksLoaded stores the chunks and evicts, queryRadius scans.
ListenerReceiveChunks ==
    LET m == OnWorkerMessage(worker, worker.posted[worker.received + 1])
        settlement == m.settled[Len(m.settled)]
        i == CHOOSE k \in 1..Len(pending) :
                 pending[k].call = worker.callers[settlement.id + 1]
        rec == calls[pending[i].call]
        t1 == StoreChunks(index, StorageManagerLoadChunks(settlement), now)
        t2 == evictOldChunks(t1)
        r == QueryScan(t2, rec.query.lon, rec.query.lat, rec.query.radius)
        resumed == Len(m.settled) > Len(worker.settled)
    IN /\ ListenerTakes
       /\ index' = IF resumed THEN r.this ELSE index
       /\ pending' = IF resumed
                     THEN SubSeq(pending, 1, i - 1)
                              \o SubSeq(pending, i + 1, Len(pending))
                     ELSE pending
       /\ calls' = IF resumed
                   THEN [c \in DOMAIN calls \ {pending[i].call} |-> calls[c]]
                   ELSE calls
       /\ last' = IF resumed
                  THEN [rec EXCEPT
                          !.loaded = TRUE,
                          !.preEvict = t1.chunkCache,
                          !.evicted = ToRemove(t1),
                          !.capacity = t2.maxCachedChunks,
                          !.resident = t2.loadedChunks,
                          !.features = r.features]
                  ELSE NoCall
       /\ UNCHANGED <<sourceGroups, save, store, loaded, now, nextCall>>

(* --------------------------- specifications --------------------------- *)

\* The cache runs: one upload, sessions restored from the store, lazy queries and
\* prefetches overlapping, the limit retuned.
Next ==
    \/ HandleFolderUpload
    \/ RestoreData
    \/ \E o \in CacheOptionSets : EnableLazyLoading(o)
    \/ Tick
    \/ \E q \in CacheQueries : QueryRadiusLazy(q)
    \/ \E c \in PrefetchCenters : PrefetchNeighboringChunks(c, 0)
    \/ \E i \in 1..Len(pending) : LoaderRespond(i)

Spec == Init /\ [][Next]_vars

\* The tuning runs: one upload, then the limit tuned with every combination of hints.
NextTune ==
    \/ HandleFolderUpload
    \/ \E h \in TuneHints : TuneChunkCache(h)

SpecTune == Init /\ [][NextTune]_vars

\* The build runs: generated uploads, built by either upload handler and restored,
\* with lookups of global indices, or indexed eagerly and queried.
NextBuild ==
    \/ IndexFeatures
    \/ HandleFolderUpload
    \/ HandleSingleFileUpload
    \/ RestoreData
    \/ \E i \in 0..(MaxGroups * MaxGroupSize - 1) : ResolveChunkForIndex(i)
    \/ \E q \in EagerQueries : QueryRadiusEager(q)

SpecBuild == InitBuild /\ [][NextBuild]_vars

\* The save runs: uploads saved one after the other, every request of a save
\* answered by the worker with success or with an error.
NextSave ==
    \/ \E groups \in SaveGroups : SaveSpatialIndex(groups)
    \/ \E outcome \in InitSaveOutcomes : WorkerInitSave(outcome)
    \/ \E failAt \in 0..CeilDiv(STREAM_BATCH_SIZE, SUB_BATCH_SIZE) : WorkerSaveChunkBatch(failAt)
    \/ WorkerFinalizeSave
    \/ SaveResume

SpecSave == Init /\ [][NextSave]_vars

\* The message runs: messages sent to the worker while others are in flight,
\* handled by the worker, the answers taken by the listener.
NextWorker ==
    \/ \E request \in WorkerRequests : SendToWorker(request)
    \/ WorkerReceive
    \/ \E id \in 0..(MaxMessages - 1), outcome \in InitSaveOutcomes : WorkerRespond(id, outcome)
    \/ ListenerReceive

SpecWorker == InitWorker /\ [][NextWorker]_vars

\* A session on one folder: the upload, its save complete or aborted, lazy
\* queries one after the other, clear, and getFeature on an index deserialized
\* from a malformed record.
InitSession == InitWith({SessionGroups})

NextSession ==
    \/ HandleFolderUpload
    \/ \E batches \in 0..1 : HandleFolderUploadAborted(batches)
    \/ \E q \in SessionQueries : QueryRadiusAlone(q)
    \/ \E i \in 1..Len(pending) : LoaderRespond(i)
    \/ Tick
    \/ Clear
    \/ /\ store.index # <<>>
       /\ \E data \in MalformedIndexData(loadSpatialIndex(store)[1].indexData) :
             DeserializeMalformed(data)
    \/ \E i \in 0..Len(Concat(sourceGroups)) - 1 : GetFeature(i)

SpecSession == InitSession /\ [][NextSession]_vars

\* Lookups on the index of a generated upload, built or restored, and after the
\* lookup table was rebuilt.
NextLookup ==
    \/ HandleFolderUpload
    \/ HandleSingleFileUpload
    \/ RestoreData
    \/ Reserialize
    \/ \E i \in 0..(MaxGroups * MaxGroupSize - 1) : ResolveChunkForIndex(i)

SpecLookup == InitBuild /\ [][NextLookup]_vars

\* The cells queryRadius examines, for radii in metres.
NextRange == \E q \in RangeQueries : QueryCells(q)

SpecRange == Init /\ [][NextRange]_vars

\* Lazy queries whose chunk requests travel to the worker and back: the upload,
\* with the worker's database open or not, queries that may overlap, the worker
\* answering in any order with the chunks or with an error.
InitLoad ==
    /\ sourceGroups = CacheGroups
    /\ store = EmptyStore
    /\ loaded = "none"
    /\ index = NewSpatialIndex
    /\ now = 0
    /\ calls = NoCalls
    /\ pending = <<>>
    /\ nextCall = 1
    /\ last = NoCall
    /\ save = NoSave
    /\ worker \in {NoWorker, [NoWorker EXCEPT !.db = TRUE]}

LoadRespond(id) == \E outcome \in InitSaveOutcomes : WorkerRespond(id, outcome)

NextLoad ==
    \/ HandleFolderUpload
    \/ \E q \in CacheQueries : QueryRadiusViaWorker(q)
    \/ WorkerReceive
    \/ \E id \in 0..(MaxCalls - 1) : LoadRespond(id)
    \/ ListenerReceiveChunks

SpecLoad == InitLoad /\ [][NextLoad]_vars

\* The worker receives and answers every message and the browser delivers every
\* answer to the listener; in these runs the listener's event is always the one
\* that resumes a waiting call.
SpecLoadLive ==
    /\ SpecLoad
    /\ WF_vars(WorkerReceive)
    /\ \A id \in 0..(MaxCalls - 1) : WF_vars(LoadRespond(id))
    /\ WF_worker(ListenerTakes)

(* ------------------------------ properties ---------------------------- *)

\* An ensureChunksLoaded call completed in the last step.
Completed == last.kind \in {"query", "prefetch"}

\* The chunk ids of the entries of a chunkCache.
CacheIds(cache) == {cache[i].id : i \in 1..Len(cache)}

\* The global indices of the features a query returned.
ResultIndices(features) == {features[i].index : i \in 1..Len(features)}

\* The candidate cells of a query: the square of cells around the cell of its centre.
CandidateCells(q) ==
    LET cx == q.lon \div CellUnits
        cy == q.lat \div CellUnits
        n == CeilDiv(q.radius, CellUnits)
    IN {<<cx + dx, cy + dy>> : dx \in -n..n, dy \in -n..n}

\* The chunk ids the cell-to-chunk table lists for the candidate cells of a query.
CandidateChunkIds(q) ==
    UNION {Range(index.chunkMetadata[k]) :
              k \in CandidateCells(q) \cap DOMAIN index.chunkMetadata}

\* C1: whenever an ensureChunksLoaded call completes, whatever enableLazyLoading,
\* tuneChunkCache and ensureChunksLoaded calls came before and whether or not the
\* call had anything to load, the number of resident chunks (loadedChunks and
\* chunkCache entries) is at most the applied maxCachedChunks.
C1_ResidentWithinCapacity ==
    Completed =>
        /\ Cardinality(index.loadedChunks) <= index.maxCachedChunks
        /\ Len(index.chunkCache) <= index.maxCachedChunks

\* C2: when a lazy queryRadius starts its scan, every chunk id the cell-to-chunk
\* table lists for one of its candidate cells, and that the store holds, is
\* resident, also when the query needs more chunks than maxCachedChunks.
C2_NeededChunksResidentAtScan ==
    last.kind = "query" =>
        ((CandidateChunkIds(last.query) \cup Range(last.ids)) \cap DOMAIN store.chunks)
            \subseteq last.resident

\* C3: every ensureChunksLoaded call refreshes lastAccess of every requested chunk
\* that was resident when the call started, whether or not the call loaded others:
\* when the call completes no such chunk holds an access time from before the call.
C3_ResidentRequestedRefreshed ==
    Completed =>
        \A i \in 1..Len(last.preEvict) :
            last.preEvict[i].id \in last.startLoaded
                => last.preEvict[i].lastAccess >= last.startTime

\* C4: an eviction pass removes exactly max(0, resident - maxCachedChunks) chunks,
\* each with a lastAccess no newer than that of every chunk that stays, and the
\* removed chunks leave chunkMap and loadedChunks.
C4_EvictionIsStrictLRU ==
    last.loaded =>
        LET before == last.preEvict
            after == index.chunkCache
            removed == {i \in 1..Len(before) : before[i].id \notin CacheIds(after)}
            kept == {i \in 1..Len(before) : before[i].id \in CacheIds(after)}
            excess == IF Len(before) > index.maxCachedChunks
                      THEN Len(before) - index.maxCachedChunks ELSE 0
        IN /\ Cardinality(removed) = excess
           /\ Len(after) = Len(before) - excess
           /\ \A i \in removed : \A j \in kept :
                 before[i].lastAccess <= before[j].lastAccess
           /\ \A j \in kept : \E k \in 1..Len(after) : after[k] = before[j]
           /\ index.loadedChunks = CacheIds(after)
           /\ DOMAIN index.chunkMap = CacheIds(after)

\* An eviction pass ran over a cache above its limit whose entries differ in age.
C4_EvictionOfOlderChunks ==
    /\ last.loaded
    /\ Len(last.preEvict) > index.maxCachedChunks
    /\ \E i, j \in 1..Len(last.preEvict) :
          last.preEvict[i].lastAccess < last.preEvict[j].lastAccess

\* C5: when ensureChunksLoaded calls overlap, a chunk id that is not resident is
\* requested from the chunk loader at most once: no two unanswered requests hold
\* the same chunk id.
C5_NoDuplicateFetch ==
    \A i, j \in 1..Len(pending) :
        i # j => Range(pending[i].ids) \cap Range(pending[j].ids) = {}

\* C6: a lazy queryRadius that overlapped other queries or prefetches returns
\* exactly the features it returns when run alone from the state it started in.
\* Stated for the queries whose chunks fit the limit, with the limit and the clock
\* as they were at the query's start, so that only the overlap can tell.
C6_OverlapKeepsResult ==
    (/\ last.kind = "query"
     /\ Len(last.ids) <= index.maxCachedChunks
     /\ last.startCapacity = index.maxCachedChunks
     /\ last.startTime = now)
        => ResultIndices(last.features) = last.expect

\* C7: queryRadius on an index that was built, persisted, restored and set to lazy
\* loading returns the same set of features as queryRadius on the eager index of
\* the same features.
C7_LazyEqualsEager ==
    (loaded = "restored" /\ last.kind = "query") =>
        ResultIndices(last.features) =
            ResultIndices(QueryScan(IndexedFeatures(Concat(sourceGroups)),
                                    last.query.lon, last.query.lat,
                                    last.query.radius).features)

\* C8: an eager queryRadius(lon, lat, r) returns exactly one result for every
\* indexed Point feature of a candidate cell whose distance to (lon, lat) is at
\* most r, a feature at distance exactly r included, and nothing else.
C8_EagerQueryExact ==
    last.kind = "eager" =>
        LET q == last.query
            all == Concat(sourceGroups)
            hits == {i \in 0..Len(all) - 1 :
                        /\ all[i + 1].type = "Point"
                        /\ <<all[i + 1].lon \div CellUnits, all[i + 1].lat \div CellUnits>>
                              \in CandidateCells(q)
                        /\ (all[i + 1].lon - q.lon) * (all[i + 1].lon - q.lon)
                             + (all[i + 1].lat - q.lat) * (all[i + 1].lat - q.lat)
                              <= q.radius * q.radius}
        IN /\ ResultIndices(last.features) = hits
           /\ Len(last.features) = Cardinality(hits)
           /\ \A k \in 1..Len(last.features) :
                 last.features[k].feature = all[last.features[k].index + 1]

\* An eager query returned a feature at distance exactly r > 0 and left out a Point
\* feature of a candidate cell that is farther away.
C8_FeatureOnTheRadius ==
    /\ last.kind = "eager"
    /\ last.query.radius > 0
    /\ \E k \in 1..Len(last.features) :
          last.features[k].distance = last.query.radius * last.query.radius
    /\ \E i \in 1..Len(index.allFeatures) :
          /\ index.allFeatures[i].type = "Point"
          /\ getCellKey(index.allFeatures[i].lon, index.allFeatures[i].lat)
                \in CandidateCells(last.query)
          /\ (i - 1) \notin ResultIndices(last.features)

\* C9: an ensureChunksLoaded call asks the chunk loader at most once, for exactly
\* the requested ids that were not resident when it started, and not at all when
\* all were resident; a query's request is the chunk ids of its candidate cells
\* that were not resident (all of them on a freshly restored index).
C9_OneRequestOfNonResident ==
    /\ \A c \in DOMAIN calls :
          LET reqs == {i \in 1..Len(pending) : pending[i].call = c}
          IN /\ Cardinality(reqs) = 1
             /\ \A i \in reqs :
                   /\ pending[i].ids # <<>>
                   /\ Len(pending[i].ids) = Cardinality(Range(pending[i].ids))
                   /\ Range(pending[i].ids)
                         = Range(calls[c].ids) \ calls[c].startLoaded
                   /\ calls[c].kind = "query" =>
                         Range(pending[i].ids)
                            = CandidateChunkIds(calls[c].query) \ calls[c].startLoaded
    /\ \A i \in 1..Len(pending) : pending[i].call \in DOMAIN calls
    /\ Completed => (last.loaded <=> ~(Range(last.ids) \subseteq last.startLoaded))

\* On a restored index a query waits for the chunk loader with some of its chunks
\* resident since an earlier query.
C9_PartlyResidentRequest ==
    /\ loaded = "restored"
    /\ \E c \in DOMAIN calls :
          /\ calls[c].kind = "query"
          /\ calls[c].startLoaded # {}
          /\ \E i \in 1..Len(pending) : pending[i].call = c

\* C10: the chunk boundaries of a build partition [0, featureCount): the first
\* starts at 0, each starts where the one before ends, the last ends at
\* featureCount, chunk k is as long as the k-th group that was built from, and one
\* group gives the one chunk [0, featureCount). The index record holds the same
\* boundaries.
C10_BoundariesPartition ==
    loaded \in {"folder", "single"} =>
        LET b == index.chunkBoundaries
            groups == IF loaded = "folder"
                      THEN SelectSeq(sourceGroups, LAMBDA g : Len(g) > 0)
                      ELSE <<sourceGroups[1]>>
        IN /\ Len(b) = Len(groups)
           /\ Len(b) >= 1
           /\ b[1].start = 0
           /\ \A k \in 1..Len(b) - 1 : b[k + 1].start = b[k].end
           /\ b[Len(b)].end = index.featureCount
           /\ index.featureCount = Len(Concat(groups))
           /\ \A k \in 1..Len(b) : b[k].end - b[k].start = Len(groups[k])
           /\ Len(groups) = 1 => (b[1].start = 0 /\ b[1].end = index.featureCount)
           /\ store.index[1].data.chunkBoundaries = b

\* A folder of two shapefiles with features was built into two chunks.
C10_TwoChunksBuilt ==
    /\ loaded = "folder"
    /\ Len(index.chunkBoundaries) = 2
    /\ index.chunkBoundaries[2].start > 0
    /\ index.chunkBoundaries[2].end > index.chunkBoundaries[2].start

\* C11: for every global index i in [0, featureCount), whatever lookups came before,
\* resolveChunkForIndex(i) returns the one chunk id c with
\* boundaries[c].start <= i < boundaries[c].end, and localIndex = i - boundaries[c].start.
C11_ResolveIsTheBoundary ==
    last.kind = "resolve" =>
        LET b == index.chunkBoundaries
            owners == {c \in 0..Len(b) - 1 :
                          b[c + 1].start <= last.index /\ last.index < b[c + 1].end}
        IN /\ Cardinality(owners) = 1
           /\ last.chunkId \in owners
           /\ last.localIndex = last.index - b[last.chunkId + 1].start

\* On a restored index a lookup resolved the second feature of the second chunk.
C11_LookupInSecondChunk ==
    /\ loaded = "restored"
    /\ last.kind = "resolve"
    /\ last.chunkId = 1
    /\ last.localIndex = 1

\* C12: for every populated grid cell the cell-to-chunk table has a non-empty entry
\* that holds, once each, exactly the chunk ids of the global indices stored in
\* the cell; a cell with features of several chunks keeps all of their ids. The
\* index record holds the same table.
C12_CellTableIsChunkUnion ==
    loaded \in {"folder", "single", "restored"} =>
        LET b == index.chunkBoundaries
            chunksOf(k) == {c \in 0..Len(b) - 1 :
                               \E i \in Range(index.grid[k]) :
                                   b[c + 1].start <= i /\ i < b[c + 1].end}
        IN /\ DOMAIN index.chunkMetadata = DOMAIN index.grid
           /\ \A k \in DOMAIN index.grid :
                 /\ Len(index.grid[k]) > 0
                 /\ index.chunkMetadata[k] # <<>>
                 /\ Range(index.chunkMetadata[k]) = chunksOf(k)
                 /\ Len(index.chunkMetadata[k]) = Cardinality(chunksOf(k))
           /\ store.index[1].data.chunkMetadata = index.chunkMetadata

\* A built index has a cell whose features come from two chunks.
C12_CellOfTwoChunks ==
    /\ loaded = "folder"
    /\ \E k \in DOMAIN index.chunkMetadata : Len(index.chunkMetadata[k]) = 2

\* C13: the limit tuneChunkCache applies is the minimum of the caller's
\* maxCachedChunks, the dataset heuristic and the device reduction; in particular
\* it never exceeds the caller's maxCachedChunks, whatever the hints.
C13_CapacityWithinCeiling ==
    (last.kind = "tune" /\ last.hints.maxCachedChunks > 0)
        => last.applied <= last.hints.maxCachedChunks

\* C14: for every chunkCount >= 1 and every ceiling, with a low-memory hint
\* (deviceMemory <= 4, mobile or older iPad) enableLazyLoading returns a limit from
\* 1 to 6, and at most 4 with deviceMemory <= 2 or an older iPad.
C14_LowMemoryCapacity ==
    (last.kind = "tune" /\ last.hints.chunkCount >= 1) =>
        LET h == last.hints
            low == h.isMobile \/ h.isOlderiPad
                      \/ (h.deviceMemory # -1 /\ h.deviceMemory <= 4)
            lowest == h.isOlderiPad \/ (h.deviceMemory # -1 /\ h.deviceMemory <= 2)
        IN /\ last.applied = index.maxCachedChunks
           /\ low => (1 <= last.applied /\ last.applied <= 6)
           /\ lowest => last.applied <= 4

\* With 50 chunks a mobile device that reports 8 GB is given the limit 6.
C14_MobileWithFiftyChunks ==
    /\ last.kind = "tune"
    /\ last.hints.chunkCount = 50
    /\ last.hints.isMobile
    /\ ~last.hints.isOlderiPad
    /\ last.hints.deviceMemory = 8
    /\ last.applied = 6

(* ------------------------- the save protocol -------------------------- *)

\* The chunks of the save in progress or completed last, and its index data.
SaveChunks == FeatureChunksOf(sourceGroups)

SaveIndex == IndexDataOf(sourceGroups)

\* Action, startIndex and number of chunks of the requests sent so far.
SentShape ==
    [k \in 1..Len(save.sent) |->
        <<save.sent[k].action, save.sent[k].startIndex, Len(save.sent[k].chunks)>>]

\* The requests of a complete save of n chunks: initSave, the batches of ten from
\* 0 on with the rest in the last one, finalizeSave.
WholeShape(n) ==
    LET batches == (n + 9) \div 10
    IN <<<<"initSave", -1, 0>>>>
       \o [b \in 1..batches |->
              <<"saveChunkBatch", 10 * (b - 1),
                IF 10 * b <= n THEN 10 ELSE n - 10 * (b - 1)>>]
       \o <<<<"finalizeSave", -1, 0>>>>

RECURSIVE SumOf(_)
SumOf(sizes) == IF sizes = <<>> THEN 0 ELSE Head(sizes) + SumOf(Tail(sizes))

\* C15: during a save the requests sent so far are the beginning of initSave,
\* batches with ascending startIndex, finalizeSave (all of it once the save
\* returned true); a request is sent only when every request before it was
\* answered with success; and once a batch of the save has written a record, the
\* index record is this save's and the chunk records are the first records of
\* this save and nothing else.
C15_RequestsInOrder ==
    save.phase # "idle" =>
        LET n == Len(SaveChunks)
            whole == WholeShape(n)
        IN /\ Len(save.sent) <= Len(whole)
           /\ \A k \in 1..Len(save.sent) : SentShape[k] = whole[k]
           /\ save.result = "true" => Len(save.sent) = Len(whole)
           /\ Len(save.sent) - 1 <= Len(save.acks)
           /\ Len(save.acks) <= Len(save.sent)
           /\ \A k \in 1..(Len(save.sent) - 1) : save.acks[k]
           /\ Len(save.sent) > 1 =>
                 store.index = <<[data |-> SaveIndex, chunkCount |-> n]>>
           /\ save.tx # <<>> =>
                 /\ DOMAIN store.chunks = 0..(SumOf(save.tx) - 1)
                 /\ \A id \in DOMAIN store.chunks : store.chunks[id] = SaveChunks[id + 1]

\* A save of 21 chunks returned true after five requests, over a store that held
\* chunk records of a save before.
C15_ThreeBatchesOverStaleRecords ==
    /\ save.result = "true"
    /\ Len(SaveChunks) = 21
    /\ Len(save.sent) = 5
    /\ DOMAIN save.startStore.chunks # {}

\* C16: after a save of n chunks returned true the store holds the index record
\* with chunkCount n and exactly the chunk records 0..n-1, record i holding the
\* i-th input chunk, whatever the save found in the store: it is the store that
\* one undisturbed saveSpatialIndex leaves.
C16_StoreIsTheSavedInput ==
    save.result = "true" =>
        LET n == Len(SaveChunks)
        IN /\ store.index = <<[data |-> SaveIndex, chunkCount |-> n]>>
           /\ DOMAIN store.chunks = 0..(n - 1)
           /\ \A id \in 0..(n - 1) : store.chunks[id] = SaveChunks[id + 1]
           /\ store = saveSpatialIndex(save.startStore, SaveIndex, SaveChunks)

\* A save of one chunk returned true over the records 0..19 that a failed save of
\* 21 chunks had left.
C16_SmallSaveOverPartialLargeSave ==
    /\ save.result = "true"
    /\ Len(SaveChunks) = 1
    /\ save.prevResult = "false"
    /\ DOMAIN save.startStore.chunks = 0..19

\* The largest chunk id a save of the run writes.
MaxSavedChunkId == 2 * STREAM_BATCH_SIZE

\* C17: when saveSpatialIndex returned true twice in a row for the same input, what
\* loadSpatialIndex and loadChunks read from the store after the second call is
\* what they read after the first.
C17_SecondSaveChangesNothing ==
    (save.result = "true" /\ save.prevResult = "true" /\ save.prevGroups = sourceGroups) =>
        /\ loadSpatialIndex(store) = loadSpatialIndex(save.startStore)
        /\ \A id \in 0..(MaxSavedChunkId + 1) :
              loadChunks(store, <<id>>) = loadChunks(save.startStore, <<id>>)

\* The same 21 chunks were saved twice in a row, both saves returning true.
C17_SameInputSavedTwice ==
    /\ save.result = "true"
    /\ save.prevResult = "true"
    /\ save.prevGroups = sourceGroups
    /\ Len(SaveChunks) = 21
    /\ loadSpatialIndex(store) # <<>>

\* The batches of the save that the worker has acknowledged to saveSpatialIndex.
AckedBatches ==
    {k \in 1..Len(save.acks) : save.acks[k] /\ save.sent[k].action = "saveChunkBatch"}

\* C18: during a save the progress callback of the caller has been called at
\* least once for every batch the worker has acknowledged.
C18_ProgressAfterEachBatch ==
    Len(save.progress) >= Cardinality(AckedBatches)

\* The saveChunkBatch requests sent so far that carry chunk j (0-based).
BatchesCarrying(j) ==
    {k \in 1..Len(save.sent) :
        /\ save.sent[k].action = "saveChunkBatch"
        /\ save.sent[k].startIndex <= j
        /\ j < save.sent[k].startIndex + Len(save.sent[k].chunks)}

\* C19: no saveChunkBatch request carries more than 10 chunks (nor none), no
\* chunk of the save is carried by two requests, after a save that returned true
\* every chunk was carried by exactly one, at its place in the batch, and no
\* transaction of a batch wrote more than 10 records.
C19_BoundedDisjointBatches ==
    save.phase # "idle" =>
        /\ \A k \in 1..Len(save.sent) :
              save.sent[k].action = "saveChunkBatch" =>
                  /\ Len(save.sent[k].chunks) >= 1
                  /\ Len(save.sent[k].chunks) <= 10
                  /\ save.sent[k].startIndex + Len(save.sent[k].chunks) <= Len(SaveChunks)
        /\ \A j \in 0..(Len(SaveChunks) - 1) :
              /\ Cardinality(BatchesCarrying(j)) <= 1
              /\ save.result = "true" => Cardinality(BatchesCarrying(j)) = 1
              /\ \A k \in BatchesCarrying(j) :
                    save.sent[k].chunks[j - save.sent[k].startIndex + 1] = SaveChunks[j + 1]
        /\ \A t \in 1..Len(save.tx) : save.tx[t] >= 1 /\ save.tx[t] <= 10

\* A save of 21 chunks returned true: batches of 10, 10 and 1 chunks, written in
\* three transactions.
C19_TwoFullBatchesAndOne ==
    /\ save.result = "true"
    /\ Len(SaveChunks) = 21
    /\ save.tx = <<10, 10, 1>>
    /\ Cardinality(BatchesCarrying(20)) = 1

\* C20: an error answer to a request of a save is the last thing of that save: no
\* request was sent after the one it answers and none is on its way, and once
\* saveSpatialIndex has taken the answer the call has returned false. A call
\* returns true or false, and true only when every request was answered with
\* success.
C20_ErrorAbortsTheSave ==
    /\ save.result \in {"none", "true", "false"}
    /\ save.phase = "done" <=> save.result # "none"
    /\ save.result = "true" => \A k \in 1..Len(save.acks) : save.acks[k]
    /\ save.result = "false" => save.acks # <<>> /\ ~save.acks[Len(save.acks)]
    /\ save.response = <<FALSE>> =>
          /\ save.request = <<>>
          /\ Len(save.sent) = Len(save.acks) + 1
    /\ \A k \in 1..Len(save.acks) :
          ~save.acks[k] =>
              /\ k = Len(save.acks)
              /\ Len(save.sent) = k
              /\ save.request = <<>>
              /\ save.response = <<>>
              /\ save.phase = "done"
              /\ save.result = "false"

\* The second batch of a save of 21 chunks was answered with an error: the call
\* returned false with three requests sent, the third batch and finalizeSave not
\* among them.
C20_SecondBatchFailed ==
    /\ save.acks = <<TRUE, TRUE, FALSE>>
    /\ save.result = "false"
    /\ Len(SaveChunks) = 21
    /\ Len(save.sent) = 3
    /\ DOMAIN store.chunks = 0..9

(* ------------------------- the message channel ------------------------ *)

\* The positions of the responses the worker has posted with this id.
ResponsesTo(id) ==
    {k \in 1..Len(worker.posted) :
        worker.posted[k].action = "response" /\ worker.posted[k].id = id}

\* The handler of the message has run to its end.
HandlerEnded(id) ==
    /\ id < worker.messageId
    /\ id \notin worker.running
    /\ \A k \in 1..Len(worker.toWorker) : worker.toWorker[k] # id

SettlementsOf(id) == {i \in 1..Len(worker.settled) : worker.settled[i].id = id}

\* The responses with this id among the messages the listener has taken.
ResponsesTaken(id) == {k \in ResponsesTo(id) : k <= worker.received}

\* C22: with the answers arriving in any order, the promise of a message is
\* settled at most once; it is settled exactly when the listener has taken the
\* response with its id, resolved with that response's data or rejected with
\* its error; until then it stays pending, also when a progress message with
\* its id was taken.
C22_SettledByOwnResponse ==
    \A id \in 0..(worker.messageId - 1) :
        /\ Cardinality(SettlementsOf(id)) <= 1
        /\ SettlementsOf(id) # {} <=> ResponsesTaken(id) # {}
        /\ id \in worker.pendingMessages <=> SettlementsOf(id) = {}
        /\ \A i \in SettlementsOf(id) : \A k \in ResponsesTaken(id) :
              /\ worker.settled[i].resolved = worker.posted[k].success
              /\ worker.posted[k].success => worker.settled[i].data = worker.posted[k].data
              /\ ~worker.posted[k].success => worker.settled[i].error = worker.posted[k].error

\* loadSpatialIndex and a second message were in flight together; the second was
\* answered first and rejected, then the progress message and the response of
\* loadSpatialIndex arrived and resolved the first promise with the index.
C22_AnswersOutOfOrder ==
    /\ Len(worker.settled) = 2
    /\ worker.requests[1].action = "loadSpatialIndex"
    /\ worker.settled[1].id = 1
    /\ ~worker.settled[1].resolved
    /\ worker.settled[2].id = 0
    /\ worker.settled[2].resolved
    /\ worker.settled[2].data.kind = "index"
    /\ worker.posted[1].action = "progress"

\* The message whose handler ended in the last step, its response, and whether a
\* message of this action was among the ones sent.
HandledRequest == worker.requests[worker.handled + 1]

HandledResponse == worker.posted[Len(worker.posted)]

\* C25: when the worker has answered a clear message with success, the store
\* holds no index record and no chunk record: loadSpatialIndex reads null and
\* loadChunks finds no chunk under any id.
C25_ClearEmptiesTheStore ==
    (worker.handled >= 0 /\ HandledRequest.action = "clear" /\ HandledResponse.success) =>
        /\ store.index = <<>>
        /\ DOMAIN store.chunks = {}
        /\ loadSpatialIndex(store) = <<>>
        /\ \A id \in 0..(Len(CacheGroups) + 1) : loadChunks(store, <<id>>) = <<>>
        /\ loadChunks(store, <<2, 1, 0>>) = <<>>

\* The one message sent was clear, over the saved upload, and it was answered
\* with success.
C25_SavedUploadCleared ==
    /\ Len(worker.requests) = 1
    /\ worker.handled = 0
    /\ HandledRequest.action = "clear"
    /\ HandledResponse.success
    /\ SavedStore # EmptyStore

\* C27: the chunks a loadChunks message is answered with are chunks of requested
\* ids only, one entry for each requested id that has a record and none for the
\* others, in request order, each with the features stored under its id.
C27_OnlyRequestedChunks ==
    (worker.handled >= 0 /\ HandledRequest.action = "loadChunks" /\ HandledResponse.success) =>
        LET ids == HandledRequest.chunkIds
            chunks == HandledResponse.data.chunks
        IN /\ \A i \in 1..Len(chunks) :
                 /\ Includes(ids, chunks[i].id)
                 /\ chunks[i].id \in DOMAIN store.chunks
                 /\ chunks[i].features = store.chunks[chunks[i].id]
           /\ \A i, j \in 1..Len(chunks) : i < j => chunks[i].id # chunks[j].id
           /\ \A k \in 1..Len(ids) :
                 ids[k] \in DOMAIN store.chunks
                     => \E i \in 1..Len(chunks) : chunks[i].id = ids[k]
           /\ \A i, j \in 1..Len(chunks) : \A k, l \in 1..Len(ids) :
                 (i < j /\ ids[k] = chunks[i].id /\ ids[l] = chunks[j].id) => k < l

\* The chunks 2, 7 and 0 were asked of the saved upload, which has the chunks 0, 1
\* and 2: the answer holds chunk 2 and chunk 0.
C27_TwoOfThreeFound ==
    /\ Len(worker.requests) = 1
    /\ worker.handled = 0
    /\ HandledRequest.chunkIds = <<2, 7, 0>>
    /\ HandledResponse.success
    /\ Len(HandledResponse.data.chunks) = 2
    /\ HandledResponse.data.chunks[1].id = 2
    /\ HandledResponse.data.chunks[2].features = SavedStore.chunks[0]

\* C37: the ids handed out so far are 0..messageId - 1, one per request, and the
\* messages not yet received by the worker carry them in increasing order;
\* pendingMessages holds exactly the ids whose response the listener has not
\* taken; and a response with an id that is not pending, never handed out or
\* answered before, leaves StorageManager's state as it is.
C37_PendingIsSentUnanswered ==
    /\ Len(worker.requests) = worker.messageId
    /\ \A i, j \in 1..Len(worker.toWorker) :
          i < j => worker.toWorker[i] < worker.toWorker[j]
    /\ Range(worker.toWorker) \cup worker.running \subseteq 0..(worker.messageId - 1)
    /\ worker.pendingMessages =
          {id \in 0..(worker.messageId - 1) : ResponsesTaken(id) = {}}
    /\ \A id \in 0..MaxMessages : \A success \in BOOLEAN :
          id \notin worker.pendingMessages =>
              OnWorkerMessage(worker, Message("response", id, success, NoData, "late"))
                  = worker

\* Two requests were sent; the second was answered and settled while the first
\* is still pending.
C37_SecondAnsweredFirst ==
    /\ worker.messageId = 2
    /\ worker.pendingMessages = {0}
    /\ ResponsesTaken(1) # {}
    /\ Len(worker.settled) = 1

\* The actions whose operation works on the store.
StoreActions ==
    {"initSave", "saveChunkBatch", "loadSpatialIndex", "loadChunks", "getMetadata",
     "clear"}

\* C38: an initSave, saveChunkBatch, loadSpatialIndex, loadChunks, getMetadata or
\* clear message the worker received while its database was not open is answered
\* with failure and the store is left as it was; the error is 'DB not
\* initialized' when the message has the payload StorageManager sends with it.
C38_NoDatabaseNoChange ==
    [][\A id \in worker.noDb :
          (/\ worker'.handled = id
           /\ worker.requests[id + 1].action \in StoreActions) =>
              LET request == worker.requests[id + 1]
                  response == worker'.posted[Len(worker'.posted)]
              IN /\ store' = store
                 /\ response.action = "response"
                 /\ response.id = id
                 /\ ~response.success
                 /\ (request.hasPayload
                       \/ request.action \in {"loadSpatialIndex", "getMetadata", "clear"})
                        => response.error = "DB not initialized"]_vars

\* init and clear were sent together to the worker over the saved upload, the
\* worker received both before the database was open, init opened it, and clear
\* was then answered with 'DB not initialized': the store is still the saved one.
C38_ClearBeforeInitEnded ==
    /\ Len(worker.requests) = 2
    /\ worker.requests[1].action = "init"
    /\ worker.requests[2].action = "clear"
    /\ worker.db
    /\ worker.handled = 1
    /\ HandledResponse.error = "DB not initialized"
    /\ store = SavedStore
    /\ store # EmptyStore

(* ------------------------------- restore ------------------------------ *)

\* C26: loadSpatialIndex reads null from a store without index record and else
\* the data and chunkCount of the index record, in which there is no feature
\* (the grid holds indices, the chunk table ids, the boundaries offsets); and
\* in a session restored from the store, before its first query, no chunk is
\* resident, no feature is in memory and no chunk was asked of the loader.
C26_RestoreWithholdsChunks ==
    /\ store.index = <<>> <=> loadSpatialIndex(store) = <<>>
    /\ store.index # <<>> =>
          LET result == loadSpatialIndex(store)[1]
          IN /\ DOMAIN result = {"indexData", "chunkCount"}
             /\ result.indexData = store.index[1].data
             /\ result.chunkCount = store.index[1].chunkCount
             /\ DOMAIN result.indexData =
                    {"cellSize", "grid", "featureCount", "chunkMetadata", "chunkBoundaries"}
             /\ \A k \in DOMAIN result.indexData.grid :
                    \A i \in 1..Len(result.indexData.grid[k]) :
                        result.indexData.grid[k][i] \in 0..(result.indexData.featureCount - 1)
    /\ (loaded = "restored" /\ nextCall = 1) =>
          /\ index.lazyMode
          /\ index.loadedChunks = {}
          /\ DOMAIN index.chunkMap = {}
          /\ index.chunkCache = <<>>
          /\ index.allFeatures = <<>>
          /\ pending = <<>>
          /\ DOMAIN calls = {}

\* A session restored from the store of a three-chunk upload, before its first
\* query.
C26_RestoredBeforeFirstQuery ==
    /\ loaded = "restored"
    /\ nextCall = 1
    /\ loadSpatialIndex(store)[1].chunkCount = 3
    /\ DOMAIN store.chunks = {0, 1, 2}
    /\ index.featureCount = 5

\* The index handleFolderUpload serialized for the groups of the upload.
SerializedIndex ==
    LET byShapefile == loadShapefilesFromFolder(sourceGroups)
    IN SerializeInstance(IndexedFeatures(CombinedFeatures(byShapefile)),
                         ChunkBoundariesFrom(byShapefile, 0))

\* C28: the index restored from the index record has the cell size, the grid,
\* the feature count, the chunk boundaries, the chunk-lookup table and the
\* cell-to-chunk table of the index that was serialized, so getChunksForCell
\* answers alike for every cell; none of it needed a chunk or a feature.
C28_RestoredIsSerialized ==
    loaded = "restored" =>
        /\ index.cellSize = SerializedIndex.cellSize
        /\ index.grid = SerializedIndex.grid
        /\ index.featureCount = SerializedIndex.featureCount
        /\ index.chunkBoundaries = SerializedIndex.chunkBoundaries
        /\ index.featureToChunk = SerializedIndex.featureToChunk
        /\ index.chunkMetadata = SerializedIndex.chunkMetadata
        /\ \A k \in DOMAIN SerializedIndex.grid :
              getChunksForCell(index, k) = getChunksForCell(SerializedIndex, k)
        /\ index.loadedChunks = {}
        /\ index.allFeatures = <<>>

\* An index of two chunks was restored, with a cell whose features lie in both.
C28_RestoredTwoChunkCell ==
    /\ loaded = "restored"
    /\ Len(index.chunkBoundaries) = 2
    /\ \E k \in DOMAIN index.chunkMetadata : Len(index.chunkMetadata[k]) = 2

(* -------------------------------- build ------------------------------- *)

\* The positions of the source groups that yielded features, in source order.
GroupsWithFeatures ==
    SelectSeq([i \in 1..Len(sourceGroups) |-> i], LAMBDA i : Len(sourceGroups[i]) > 0)

ChunkOfFeature(i) ==
    CHOOSE c \in 0..(Len(sourceGroups) - 1) :
        /\ Len(Concat(SubSeq(sourceGroups, 1, c))) <= i
        /\ i < Len(Concat(SubSeq(sourceGroups, 1, c + 1)))

\* The global indices of the features of the candidate cells within the radius.
MatchingIndices(q) ==
    LET all == Concat(sourceGroups)
    IN {i \in 0..Len(all) - 1 :
           /\ all[i + 1].type = "Point"
           /\ <<all[i + 1].lon \div CellUnits, all[i + 1].lat \div CellUnits>>
                 \in CandidateCells(q)
           /\ (all[i + 1].lon - q.lon) * (all[i + 1].lon - q.lon)
                + (all[i + 1].lat - q.lat) * (all[i + 1].lat - q.lat)
                 <= q.radius * q.radius}

\* The chunk ids a completed call asked for that have no record in the store.
MissingIds == Range(last.ids) \ DOMAIN store.chunks

\* C23: a lazy queryRadius that needs chunk ids without a record in the store
\* completes; no such id becomes resident, the ids with a record do, and the
\* query returns exactly the matching features of the chunks that have a record,
\* each once. Stated for queries made one after the other on the index built by
\* the upload, when the call evicted nothing.
C23_MissingChunkAbsorbed ==
    (/\ last.kind = "query"
     /\ loaded = "folder"
     /\ last.evicted = <<>>) =>
        LET all == Concat(sourceGroups)
            present == {i \in MatchingIndices(last.query) :
                           ChunkOfFeature(i) \in DOMAIN store.chunks}
        IN /\ last.resident \cap MissingIds = {}
           /\ Range(last.ids) \ MissingIds \subseteq last.resident
           /\ ResultIndices(last.features) = present
           /\ Len(last.features) = Cardinality(present)
           /\ \A k \in 1..Len(last.features) :
                 last.features[k].feature = all[last.features[k].index + 1]

\* A query completed that needed a chunk without a record, lost a matching
\* feature with it and returned the others.
C23_QueryOverMissingChunk ==
    /\ last.kind = "query"
    /\ loaded = "folder"
    /\ last.evicted = <<>>
    /\ MissingIds # {}
    /\ last.features # <<>>
    /\ \E i \in MatchingIndices(last.query) : ChunkOfFeature(i) \in MissingIds

\* C24: when clear() has just run on the index no chunk is resident: chunkMap,
\* loadedChunks and chunkCache are empty.
C24_ClearDestroysTheCache ==
    last.kind = "clear" =>
        /\ DOMAIN index.chunkMap = {}
        /\ index.loadedChunks = {}
        /\ index.chunkCache = <<>>

\* No chunk boundary of the index holds global index i.
Uncovered(i) ==
    \A k \in 1..Len(index.chunkBoundaries) :
        ~(index.chunkBoundaries[k].start <= i /\ i < index.chunkBoundaries[k].end)

\* C30: on an index whose chunk boundaries, and so its chunk-lookup table, do not
\* cover a global index the grid holds, getFeature of that index signals an error
\* to its caller.
C30_UncoveredIndexFailsLoudly ==
    (/\ last.kind = "getFeature"
     /\ loaded = "malformed"
     /\ Uncovered(last.index)) => last.outcome = "error"

(* -------------------------------- grid -------------------------------- *)

\* The places (cell, position) of the grid that hold global index i.
GridPlaces(i) ==
    {<<k, j>> \in UNION {{k} \X (1..Len(index.grid[k])) : k \in DOMAIN index.grid} :
        index.grid[k][j] = i}

\* C34: after indexFeatures the global index of every Point feature is in the
\* grid exactly once, in the cell (floor(lon / cellSize), floor(lat / cellSize)),
\* no cell is empty and the grid holds no other index.
C34_GridHoldsEachPointOnce ==
    loaded \in {"api", "folder", "single"} =>
        LET all == index.allFeatures
        IN /\ index.featureCount = Len(all)
           /\ \A k \in DOMAIN index.grid :
                 /\ index.grid[k] # <<>>
                 /\ \A j \in 1..Len(index.grid[k]) :
                       /\ index.grid[k][j] \in 0..(Len(all) - 1)
                       /\ all[index.grid[k][j] + 1].type = "Point"
           /\ \A i \in 0..(Len(all) - 1) :
                 all[i + 1].type = "Point" =>
                     /\ Cardinality(GridPlaces(i)) = 1
                     /\ \A pl \in GridPlaces(i) :
                           /\ pl[1][1] * CellUnits <= all[i + 1].lon
                           /\ all[i + 1].lon < (pl[1][1] + 1) * CellUnits
                           /\ pl[1][2] * CellUnits <= all[i + 1].lat
                           /\ all[i + 1].lat < (pl[1][2] + 1) * CellUnits

\* Four features were indexed: two Points of one cell below the equator with a
\* Polygon between them.
C34_TwoPointsShareACell ==
    /\ loaded = "api"
    /\ Len(index.allFeatures) = 4
    /\ index.allFeatures[1] = Point(0, -2)
    /\ index.allFeatures[2] = Polygon
    /\ index.allFeatures[3] = Point(0, -2)
    /\ index.grid[<<0, -1>>] = <<0, 2>>

(* ------------------------------ the cache ------------------------------ *)

\* C36: in every reachable state, whatever ensureChunksLoaded calls overlapped
\* and whatever was evicted, the ids of the chunkCache entries are pairwise
\* distinct and are the set loadedChunks, which is the key set of chunkMap.
C36_CacheStructuresAgree ==
    /\ \A i, j \in 1..Len(index.chunkCache) :
          i # j => index.chunkCache[i].id # index.chunkCache[j].id
    /\ {index.chunkCache[i].id : i \in 1..Len(index.chunkCache)} = index.loadedChunks
    /\ index.loadedChunks = DOMAIN index.chunkMap

\* A call completed with an eviction while another call was waiting for the
\* loader, and a chunk the waiting call asked for is resident.
C36_EvictionDuringOverlap ==
    /\ last.loaded
    /\ last.evicted # <<>>
    /\ \E c \in DOMAIN calls : Range(calls[c].toLoad) \cap index.loadedChunks # {}

\* C35: when a lazy query that needs at most maxCachedChunks chunks, some of them
\* resident at its start and some not, has completed its ensureChunksLoaded, all
\* the chunks it needs are resident. Stated for queries made one after the other
\* on a store that holds every chunk.
C35_NeededChunksStayResident ==
    (/\ last.kind = "query"
     /\ last.loaded
     /\ loaded = "folder"
     /\ Len(last.ids) <= index.maxCachedChunks
     /\ last.startLoaded # {}
     /\ Range(last.ids) \subseteq DOMAIN store.chunks) =>
        Range(last.ids) \subseteq last.resident

\* The chunk ids the cell-to-chunk table lists for the cells within range + 1
\* cells of the centre cell in each axis.
OneCellWiderIds(centerKey, range) ==
    LET c == parseCellKey(centerKey)
        ring == {<<c[1] + dx, c[2] + dy>> :
                    dx \in -(range + 1)..(range + 1), dy \in -(range + 1)..(range + 1)}
    IN UNION {Range(index.chunkMetadata[k]) : k \in ring \cap DOMAIN index.chunkMetadata}

\* C32: the chunk ids a prefetchNeighboringChunks(centerKey, 0) call asked its
\* ensureChunksLoaded for are chunk ids of the cells within one cell of the
\* centre cell in each axis that were not resident, and no others.
C32_PrefetchOneCellWider ==
    last.kind = "prefetch" =>
        \E centerKey \in PrefetchCenters :
            /\ Range(last.ids) \subseteq OneCellWiderIds(centerKey, 0)
            /\ last.startLoaded = {}

(* ------------------------------- lookups ------------------------------ *)

\* C40: in every state a sequence of lookups and rebuilds of the lookup table can
\* lead to, resolveChunkForIndex returns for every global index the chunkId and
\* localIndex it returns when the one-entry cache _lastChunkLookup is empty.
C40_FastPathChangesNothing ==
    loaded \in {"folder", "single", "restored"} =>
        \A i \in 0..(index.featureCount - 1) :
            LET cached == resolveChunkForIndex(index, i)
                plain == resolveChunkForIndex(
                             [index EXCEPT !.lastChunkLookup = NoLookup], i)
            IN /\ cached.chunkId = plain.chunkId
               /\ cached.localIndex = plain.localIndex

\* The table of a two-chunk upload was rebuilt with one boundary and an index
\* that lay in the second chunk was looked up: chunk 0, held in the cache since.
C40_LookupAfterRebuild ==
    /\ loaded = "folder"
    /\ Len(store.index[1].data.chunkBoundaries) = 2
    /\ Len(index.chunkBoundaries) = 1
    /\ last.kind = "resolve"
    /\ last.chunkId = 0
    /\ last.localIndex = last.index
    /\ last.index >= store.index[1].data.chunkBoundaries[2].start
    /\ index.lastChunkLookup.chunkId = 0

(* ------------------------------ cell range ---------------------------- *)

\* C33: the cells queryRadius examines for a radius in metres are exactly the
\* cells whose x and y offsets from the cell of the query point are within
\* k = ceil((radius / 111320) / cellSize), each once: (2k + 1) * (2k + 1) cells.
C33_CellRangeByAngularDelta ==
    last.kind = "cells" =>
        LET q == last.query
            k == CeilDiv(q.radius * CellsPerDegree, 111320)
            cx == q.lon \div CellUnits
            cy == q.lat \div CellUnits
        IN /\ Range(last.cells) = {<<cx + dx, cy + dy>> : dx \in -k..k, dy \in -k..k}
           /\ Len(last.cells) = (2 * k + 1) * (2 * k + 1)

(* ---------------------------- the chunk loader ------------------------ *)

\* C31: with a worker that answers every message, every lazy queryRadius call
\* that waits for its chunks completes.
C31_QueriesComplete ==
    \A c \in 1..MaxCalls : (c \in DOMAIN calls) ~> (c \notin DOMAIN calls)

\* Two queries waited at once; the second's message was answered first, and the
\* first query has now completed after the worker answered it with an error.
C31_BothQueriesAnswered ==
    /\ last.kind = "query"
    /\ last.loaded
    /\ last.call = 1
    /\ Len(worker.settled) = 2
    /\ worker.settled[1].id = 1
    /\ ~worker.settled[2].resolved
    /\ DOMAIN calls = {}

\* The listener has just rejected the promise of a loadChunks message, which
\* resumed the query that waited for it.
LoadJustFailed ==
    /\ last.kind = "query"
    /\ last.loaded
    /\ worker.settled # <<>>
    /\ worker.handled = -1
    /\ ~worker.settled[Len(worker.settled)].resolved

\* C39: when the worker answers a loadChunks message with an error, the query
\* that waited for it completes, no chunk becomes resident, and the query
\* returns exactly the matching features of the chunks that were resident.
C39_FailedLoadAddsNothing ==
    [][(/\ Len(worker'.settled) > Len(worker.settled)
        /\ LoadJustFailed') =>
           /\ last'.call \in DOMAIN calls
           /\ last'.call \notin DOMAIN calls'
           /\ index'.loadedChunks = index.loadedChunks
           /\ index'.chunkCache = index.chunkCache
           /\ ResultIndices(last'.features)
                 = {i \in MatchingIndices(last'.query) :
                       ChunkOfFeature(i) \in index.loadedChunks}]_vars

\* A query completed after its loadChunks message was answered with an error,
\* with a feature of a resident chunk and without a matching feature of the
\* chunk that was not loaded.
C39_FailedLoadPartialResult ==
    /\ LoadJustFailed
    /\ last.features # <<>>
    /\ ResultIndices(last.features) # MatchingIndices(last.query)
    /\ Range(last.toLoad) \cap last.resident = {}

====
